---- MODULE Spec2Model ----
(***************************************************************************)
(* check50_workflow: a command-line tool that builds a GitHub Actions      *)
(* workflow document from a list of slugs and writes it as YAML.           *)
(*                                                                         *)
(* A Python str is modelled as a sequence of one-character strings, so     *)
(* that rstrip, Path.stem, joins and f-strings are computed character by   *)
(* character.  A Python value is a pair <<kind, payload>>:                 *)
(*   <<"str", chars>>, <<"map", <<key, value>>...>> (insertion ordered),   *)
(*   <<"seq", items>>, <<"blank", <<>>>> (a BlankLine instance), and, as   *)
(*   results of loading YAML, <<"null", _>>, <<"bool", _>>, <<"int", _>>,  *)
(*   <<"float", _>>, <<"date", _>>, <<"datetime", _>>.  The key of a pair  *)
(*   of a map is the characters of a str key; a loaded key of another type *)
(*   is what KeyOf makes of it.                                            *)
(***************************************************************************)
EXTENDS Integers, Sequences, FiniteSets, TLC

VARIABLES
    argv,         \* sys.argv[1:], a sequence of tokens (each a str)
    pc,           \* position of main()
    args,         \* the Namespace returned by parser.parse_args()
    exit_status,  \* the process exit status, -1 while running
    disk,         \* the file at the output path: [exists, data]
    disk0,        \* the file at the output path before the run
    workflow,     \* the dict returned by build_workflow
    nodes,        \* the representation graph built by the dumper
    stream,       \* what the emitter has written into the open file object
    calls,        \* the operations main() has performed so far
    slug_in,      \* name derivation: the slug first given
    slug_cur,     \* name derivation: the slug with separators appended
    slug_name     \* name derivation: the derived name, once computed

vars == <<argv, pc, args, exit_status, disk, disk0, workflow, nodes, stream,
          calls, slug_in, slug_cur, slug_name>>

(***************************************************************************)
(* Bounds of the model.                                                    *)
(***************************************************************************)
MaxArgs == 3
MaxLen == 4
MaxSeps == 2

(***************************************************************************)
(* str helpers.                                                            *)
(***************************************************************************)
Chars == {"a", "1", "/", "."}

RECURSIVE StringsOfLen(_)
StringsOfLen(n) ==
    IF n = 0 THEN {<<>>}
    ELSE {Append(s, c) : s \in StringsOfLen(n - 1), c \in Chars}

StringsUpTo(n) == UNION {StringsOfLen(k) : k \in 0..n}

\* str.rstrip('/')
RECURSIVE rstrip(_)
rstrip(s) ==
    IF Len(s) > 0 /\ s[Len(s)] = "/" THEN rstrip(SubSeq(s, 1, Len(s) - 1))
    ELSE s

\* str.split(sep) for a one-character separator
split(s, sep) ==
    LET at == SelectSeq([i \in 1..Len(s) |-> i], LAMBDA i : s[i] = sep)
        cuts == <<0>> \o at \o <<Len(s) + 1>>
    IN [k \in 1..(Len(at) + 1) |-> SubSeq(s, cuts[k] + 1, cuts[k + 1] - 1)]

\* sep.join(parts)
RECURSIVE join(_, _)
join(sep, parts) ==
    IF Len(parts) = 0 THEN <<>>
    ELSE IF Len(parts) = 1 THEN parts[1]
    ELSE parts[1] \o sep \o join(sep, Tail(parts))

\* str.rfind(ch), 1-based; 0 when ch does not occur
rfind(s, ch) ==
    IF \E i \in 1..Len(s) : s[i] = ch
    THEN CHOOSE i \in 1..Len(s) : s[i] = ch /\ \A j \in (i + 1)..Len(s) : s[j] # ch
    ELSE 0

\* str.find(ch), 1-based; 0 when ch does not occur
find(s, ch) ==
    IF \E i \in 1..Len(s) : s[i] = ch
    THEN CHOOSE i \in 1..Len(s) : s[i] = ch /\ \A j \in 1..(i - 1) : s[j] # ch
    ELSE 0

\* ch in s
Contains(s, ch) == \E i \in 1..Len(s) : s[i] = ch

\* str.startswith(p)
StartsWith(s, p) == Len(s) >= Len(p) /\ SubSeq(s, 1, Len(p)) = p

Digits == {"0", "1", "2", "3", "4", "5", "6", "7", "8", "9"}

\* the components pathlib keeps when it parses a path
PathParts(parts) ==
    SelectSeq(parts, LAMBDA p : p # <<>> /\ p # <<".">>)

\* PurePath(s).name: the final component; empty and "." components are
\* dropped when the path is parsed, and the root alone has no name.
PathName(s) ==
    LET parts == PathParts(split(s, "/"))
    IN IF Len(parts) = 0 THEN <<>> ELSE parts[Len(parts)]

\* a stem that keeps the suffix (PurePath.name in place of PurePath.stem)
StemKeepsSuffix(name) == name

\* PurePath.stem: the name up to its last dot, unless that dot is the first
\* or the last character
StemOfName(name) ==
    LET i == rfind(name, ".")
    IN IF 1 < i /\ i < Len(name) THEN SubSeq(name, 1, i - 1) ELSE name

\* Path(s).stem
PathStem(s) == StemOfName(PathName(s))

\* lines 102-103 of build_workflow: the cleaned slug and the derived name
SlugClean(slug_path) == rstrip(slug_path)
SlugName(slug_path) == PathStem(SlugClean(slug_path))

(***************************************************************************)
(* Name derivation on its own: every slug up to MaxLen characters, with    *)
(* up to MaxSeps trailing separators appended before the name is derived.  *)
(***************************************************************************)
NoValue == <<"none">>

InitName ==
    /\ slug_in \in StringsUpTo(MaxLen)
    /\ slug_cur = slug_in
    /\ slug_name = NoValue
    /\ argv = <<>>
    /\ pc = "derive"
    /\ args = NoValue
    /\ exit_status = -1
    /\ disk = [exists |-> FALSE, data |-> <<>>]
    /\ disk0 = disk
    /\ workflow = NoValue
    /\ nodes = NoValue
    /\ stream = <<>>
    /\ calls = {}

AppendSeparator ==
    /\ pc = "derive"
    /\ Len(slug_cur) < Len(slug_in) + MaxSeps
    /\ slug_cur' = Append(slug_cur, "/")
    /\ UNCHANGED <<argv, pc, args, exit_status, disk, disk0, workflow, nodes,
                   stream, calls, slug_in, slug_name>>

DeriveName ==
    /\ pc = "derive"
    /\ slug_name' = <<"str", SlugName(slug_cur)>>
    /\ pc' = "derived"
    /\ UNCHANGED <<argv, args, exit_status, disk, disk0, workflow, nodes,
                   stream, calls, slug_in, slug_cur>>

NextName == AppendSeparator \/ DeriveName

SpecName == InitName /\ [][NextName]_vars

(***************************************************************************)
(* The argument parser of args.py, as argparse evaluates it: positional    *)
(* slugs (nargs='+'), positional outfile, the flag --force, and the help   *)
(* option -h/--help every ArgumentParser has.  The library is the one of   *)
(* the interpreter the package runs under (CPython 3.11).                  *)
(***************************************************************************)
OptForce == <<"-", "-", "f", "o", "r", "c", "e">>
OptHelp == <<"-", "h">>
OptUnknown == <<"-", "-", "b", "o", "g", "u", "s">>

\* '--': every argument after the first one is positional
Separator == <<"-", "-">>

\* The slugs and paths the command line is drawn from.
SlugPool ==
    { <<"a">>,
      <<"d", "/", "a", ".", "p", "y">>,
      <<"1", "/">>,
      <<"/">> }

Tokens == SlugPool \cup {OptForce, OptHelp, OptUnknown, Separator}

RECURSIVE SeqsUpTo(_, _)
SeqsUpTo(S, n) ==
    IF n = 0 THEN {<<>>}
    ELSE LET shorter == SeqsUpTo(S, n - 1)
         IN shorter \cup {Append(s, x) : s \in {t \in shorter : Len(t) = n - 1}, x \in S}

\* parser._option_string_actions, in the order the options were added:
\* -h and --help by ArgumentParser, --force at lines 23-27
OptionStrings == <<OptHelp, <<"-", "-", "h", "e", "l", "p">>, OptForce>>

IsOptionStringOfParser(s) == \E k \in 1..Len(OptionStrings) : OptionStrings[k] = s

\* the action an option string stands for
ActionOf(option_string) == IF option_string = OptForce THEN "force" ELSE "help"

\* str.partition(ch): the text before the first ch, whether ch occurs, the
\* text after it
partition(s, ch) ==
    LET i == find(s, ch)
    IN IF i = 0 THEN [head |-> s, sep |-> FALSE, tail |-> <<>>]
       ELSE [head |-> SubSeq(s, 1, i - 1), sep |-> TRUE,
             tail |-> SubSeq(s, i + 1, Len(s))]

\* what a pattern that ends in $ is matched against: the text, or the text
\* without its final line break
DollarForms(s) ==
    {s} \cup (IF Len(s) > 0 /\ s[Len(s)] = "\n" THEN {SubSeq(s, 1, Len(s) - 1)} ELSE {})

\* \d of a str pattern: every character that is a decimal digit in Unicode
\* (14.0, the version of the interpreter).  The digits come in runs of ten
\* from a digit zero; a character outside ASCII is written by its code
\* point, as "U+0663" for ARABIC-INDIC DIGIT THREE.
DecimalDigits ==
    LET HexChar == <<"0", "1", "2", "3", "4", "5", "6", "7",
                     "8", "9", "A", "B", "C", "D", "E", "F">>
        RECURSIVE Hex(_, _)
        Hex(n, width) ==
            IF n = 0 /\ width <= 0 THEN ""
            ELSE Hex(n \div 16, width - 1) \o HexChar[(n % 16) + 1]
        Zeros == {1632, 1776, 1984, 2406, 2534, 2662, 2790,
                  2918, 3046, 3174, 3302, 3430, 3558, 3664,
                  3792, 3872, 4160, 4240, 6112, 6160, 6470,
                  6608, 6784, 6800, 6992, 7088, 7232, 7248,
                  42528, 43216, 43264, 43472, 43504, 43600,
                  44016, 65296, 66720, 68912, 69734, 69872,
                  69942, 70096, 70384, 70736, 70864, 71248,
                  71360, 71472, 71904, 72016, 72784, 73040,
                  73120, 92768, 92864, 93008, 120782,
                  120792, 120802, 120812, 120822, 123200,
                  123632, 125264, 130032}
    IN Digits \cup {"U+" \o Hex(z + d, 4) : z \in Zeros, d \in 0..9}

\* parser._negative_number_matcher: ^-\d+$|^-\d*\.\d+$
NegativeNumber(s) ==
    LET AllDigits(t) == \A i \in 1..Len(t) : t[i] \in DecimalDigits
    IN \E u \in DollarForms(s) :
        /\ Len(u) >= 2
        /\ u[1] = "-"
        /\ \/ AllDigits(Tail(u))
           \/ \E d \in 2..(Len(u) - 1) :
                 /\ u[d] = "."
                 /\ AllDigits(SubSeq(u, 2, d - 1))
                 /\ AllDigits(SubSeq(u, d + 1, Len(u)))

\* An option tuple (action, option_string, explicit_arg), with its kind:
\* "O" for an option, "A" where _parse_optional returns None, and
\* "ambiguous" where it reports an ambiguous abbreviation.  explicit_arg is
\* NoValue for None.
OptionTuple(action, option_string, explicit) ==
    [kind |-> "O", action |-> action, option_string |-> option_string,
     explicit |-> explicit]

NotAnOption ==
    [kind |-> "A", action |-> "none", option_string |-> <<>>, explicit |-> NoValue]

AmbiguousOption ==
    [kind |-> "ambiguous", action |-> "none", option_string |-> <<>>,
     explicit |-> NoValue]

\* ArgumentParser._get_option_tuples, for s of two characters or more that
\* starts with the prefix character: the options s abbreviates (allow_abbrev)
\* when it starts with two prefix characters, else the one-letter option
\* it starts with, the rest being its explicit argument
get_option_tuples(s) ==
    IF s[2] = "-"
    THEN LET p == partition(s, "=")
             m == SelectSeq(OptionStrings, LAMBDA o : StartsWith(o, p.head))
         IN [k \in 1..Len(m) |->
                OptionTuple(ActionOf(m[k]), m[k], IF p.sep THEN p.tail ELSE NoValue)]
    ELSE LET m == SelectSeq(OptionStrings,
                            LAMBDA o : o = SubSeq(s, 1, 2) \/ StartsWith(o, s))
         IN [k \in 1..Len(m) |->
                IF m[k] = SubSeq(s, 1, 2)
                THEN OptionTuple(ActionOf(m[k]), m[k], SubSeq(s, 3, Len(s)))
                ELSE OptionTuple(ActionOf(m[k]), m[k], NoValue)]

\* ArgumentParser._parse_optional
parse_optional(arg_string) ==
    IF arg_string = <<>> THEN NotAnOption
    ELSE IF arg_string[1] # "-" THEN NotAnOption
    ELSE IF IsOptionStringOfParser(arg_string)
    THEN OptionTuple(ActionOf(arg_string), arg_string, NoValue)
    ELSE IF Len(arg_string) = 1 THEN NotAnOption
    ELSE LET p == partition(arg_string, "=")
         IN IF p.sep /\ IsOptionStringOfParser(p.head)
            THEN OptionTuple(ActionOf(p.head), p.head, p.tail)
            ELSE LET option_tuples == get_option_tuples(arg_string)
                 IN IF Len(option_tuples) > 1 THEN AmbiguousOption
                    ELSE IF Len(option_tuples) = 1 THEN option_tuples[1]
                    ELSE IF NegativeNumber(arg_string) THEN NotAnOption
                    ELSE IF Contains(arg_string, " ") THEN NotAnOption
                    ELSE OptionTuple("none", arg_string, NoValue)

\* whether _parse_optional takes a token for an option
IsOptionString(tok) == parse_optional(tok).kind # "A"

\* the position of the first '--' of a, 0 when there is none
FirstSeparator(a) ==
    IF \E i \in 1..Len(a) : a[i] = Separator
    THEN CHOOSE i \in 1..Len(a) :
            a[i] = Separator /\ \A j \in 1..(i - 1) : a[j] # Separator
    ELSE 0

\* arg_strings_pattern of _parse_known_args: 'O' for an option, 'A' for a
\* positional, '-' for the first '--', and 'A' for everything after it
arg_strings_pattern(a) ==
    LET sep == FirstSeparator(a)
    IN [i \in 1..Len(a) |->
           IF sep # 0 /\ i = sep THEN "-"
           ELSE IF sep # 0 /\ i > sep THEN "A"
           ELSE IF IsOptionString(a[i]) THEN "O"
           ELSE "A"]

\* an ambiguous abbreviation among the arguments that are examined
AmbiguousIn(a) ==
    LET sep == FirstSeparator(a)
    IN \E i \in 1..Len(a) :
          (sep = 0 \/ i < sep) /\ parse_optional(a[i]).kind = "ambiguous"

\* the length of the stretch of the pattern of a that starts at i and holds
\* no option
RECURSIVE RunLength(_, _)
RunLength(a, i) ==
    IF i > Len(a) \/ arg_strings_pattern(a)[i] = "O" THEN 0
    ELSE 1 + RunLength(a, i + 1)

\* the number of '-' that follow position k of run
RECURSIVE DashesAfter(_, _)
DashesAfter(run, k) ==
    IF k + 1 <= Len(run) /\ run[k + 1] = "-" THEN 1 + DashesAfter(run, k + 1) ELSE 0

\* ArgumentParser._match_arguments_partial on a stretch without options:
\* how many arguments each of the positionals still to be filled takes.
\* The patterns are (-*A[A-]*) for slugs and (-*A-*) for outfile; the
\* longest list of positionals whose patterns match is taken, each group
\* as long as backtracking leaves it.
match_arguments_partial(positionals, run) ==
    LET as == {k \in 1..Len(run) : run[k] = "A"}
        last == CHOOSE x \in as : \A y \in as : y <= x
        first == CHOOSE x \in as : \A y \in as : x <= y
    IN IF positionals = <<"slugs", "outfile">> /\ Cardinality(as) >= 2
       THEN <<last - 1, Len(run) - last + 1>>
       ELSE IF Len(positionals) >= 1 /\ positionals[1] = "slugs" /\ as # {}
       THEN <<Len(run)>>
       ELSE IF positionals = <<"outfile">> /\ as # {}
       THEN <<first + DashesAfter(run, first)>>
       ELSE <<>>

\* list.remove('--'): without the first '--', if there is one
RemoveSeparator(arg_strings) ==
    LET sep == FirstSeparator(arg_strings)
    IN IF sep = 0 THEN arg_strings
       ELSE SubSeq(arg_strings, 1, sep - 1) \o SubSeq(arg_strings, sep + 1, Len(arg_strings))

\* ArgumentParser._get_values for outfile (nargs=None): the one string that
\* is left once '--' is removed, else the list of them
OutfileValue(arg_strings) ==
    LET values == RemoveSeparator(arg_strings)
    IN IF Len(values) = 1 THEN <<"str", values[1]>>
       ELSE <<"seq", [k \in 1..Len(values) |-> <<"str", values[k]>>]>>

\* consume_positionals of _parse_known_args, once the stretch is matched:
\* arg_counts holds how many arguments each positional takes
take_action(a, start_index, st, arg_counts) ==
    LET first == IF Len(arg_counts) >= 1
                 THEN SubSeq(a, start_index, start_index + arg_counts[1] - 1)
                 ELSE <<>>
        second == IF Len(arg_counts) >= 2
                  THEN SubSeq(a, start_index + arg_counts[1],
                              start_index + arg_counts[1] + arg_counts[2] - 1)
                  ELSE <<>>
        stop == start_index + Len(first) + Len(second)
        rest == SubSeq(st.positionals, Len(arg_counts) + 1, Len(st.positionals))
    IN IF Len(arg_counts) = 0 THEN [i |-> start_index, st |-> st]
       ELSE IF st.positionals[1] = "slugs"
       THEN [i |-> stop,
             st |-> [st EXCEPT !.slugs = RemoveSeparator(first),
                               !.outfile = IF Len(arg_counts) = 2
                                           THEN OutfileValue(second) ELSE @,
                               !.positionals = rest]]
       ELSE [i |-> stop,
             st |-> [st EXCEPT !.outfile = OutfileValue(first),
                               !.positionals = rest]]

\* consume_positionals of _parse_known_args: the stretch of the pattern
\* that starts at start_index is matched against the positionals left
consume_positionals(a, start_index, st) ==
    take_action(a, start_index, st,
        match_arguments_partial(st.positionals,
            SubSeq(arg_strings_pattern(a), start_index,
                   start_index + RunLength(a, start_index) - 1)))

\* the loop of consume_optional for an option that takes no argument and
\* is given the explicit argument explicit: after a one-letter option the
\* first character of the text is read as a further one-letter option and
\* the rest as its explicit argument, until none is left and the options
\* noted, the first of which is first, are acted on.  Text that is no
\* option of the parser, and any text after a long option, is an error
\* ('ignored explicit argument').
RECURSIVE Cluster(_, _, _)
Cluster(first, option_string, explicit) ==
    IF explicit = NoValue THEN first
    ELSE IF option_string[2] # "-" /\ explicit # <<>>
    THEN IF IsOptionStringOfParser(<<option_string[1], explicit[1]>>)
         THEN Cluster(first, <<option_string[1], explicit[1]>>,
                      IF Tail(explicit) = <<>> THEN NoValue ELSE Tail(explicit))
         ELSE "error"
    ELSE "error"

\* consume_optional of _parse_known_args, for the option tuple t: "extra"
\* for an option the parser does not know, "force" and "help" for the
\* action that is taken, "error" for an explicit argument that is ignored
consume_optional(t) ==
    IF t.action = "none" THEN "extra"
    ELSE Cluster(t.action, t.option_string, t.explicit)

\* what the option at position next leaves of the state: an unknown option
\* is an extra, --force sets the flag, and help or an error ends the parse
take_option(st, arg_string, outcome) ==
    IF outcome = "extra" THEN [st EXCEPT !.extras = Append(@, arg_string)]
    ELSE IF outcome = "force" THEN [st EXCEPT !.force = TRUE]
    ELSE [st EXCEPT !.halt = outcome]

\* ArgumentParser._parse_known_args: the stretches of positional arguments
\* are matched against the positionals that are still to be filled, the
\* options are taken one at a time, and what neither takes is an extra.
\* next is the position of the first option from i on (0 when there is
\* none), r what consume_positionals makes of the stretch at i.
RECURSIVE Consume(_, _, _)
RECURSIVE consume_from(_, _, _, _, _)
consume_from(a, i, st, next, r) ==
    IF next = 0
    THEN [r.st EXCEPT !.extras = @ \o SubSeq(a, r.i, Len(a))]
    ELSE IF i # next /\ r.i > i THEN Consume(a, r.i, r.st)
    ELSE Consume(a, next + 1,
                 take_option([st EXCEPT !.extras = @ \o SubSeq(a, i, next - 1)],
                             a[next],
                             consume_optional(parse_optional(a[next]))))

Consume(a, i, st) ==
    LET options == {k \in i..Len(a) : arg_strings_pattern(a)[k] = "O"}
    IN IF st.halt # "" THEN st
       ELSE consume_from(a, i, st,
                         IF options = {} THEN 0
                         ELSE CHOOSE k \in options : \A j \in options : k <= j,
                         consume_positionals(a, i, st))

\* the end of parse_args: -h has printed the help and exited with status
\* 0; an error, a positional that is still to be filled and an argument
\* nothing takes are usage errors; else the Namespace
parse_known_args_end(st) ==
    IF st.halt = "help" THEN [ok |-> FALSE, status |-> 0, ns |-> NoValue]
    ELSE IF st.halt = "error" \/ st.positionals # <<>> \/ st.extras # <<>>
    THEN [ok |-> FALSE, status |-> 2, ns |-> NoValue]
    ELSE [ok |-> TRUE, status |-> -1,
          ns |-> [slugs |-> st.slugs, outfile |-> st.outfile, force |-> st.force]]

\* parser.parse_args(): a Namespace, or the exit status of the process.
\* An ambiguous abbreviation is reported while the arguments are examined,
\* before any action is taken.
parse_args(a) ==
    IF AmbiguousIn(a) THEN [ok |-> FALSE, status |-> 2, ns |-> NoValue]
    ELSE parse_known_args_end(
             Consume(a, 1, [positionals |-> <<"slugs", "outfile">>, slugs |-> <<>>,
                            outfile |-> <<"str", <<>>>>, force |-> FALSE,
                            extras |-> <<>>, halt |-> ""]))

(***************************************************************************)
(* The string constants of build_workflow, character by character.         *)
(***************************************************************************)
\* the dict keys build_workflow writes
K ==
    [ name |->
          <<"n","a","m","e">>,
      on |->
          <<"o","n">>,
      push |->
          <<"p","u","s","h">>,
      repository_dispatch |->
          <<"r","e","p","o","s","i","t","o","r","y","_","d","i","s","p","a","t","c","h">>,
      permissions |->
          <<"p","e","r","m","i","s","s","i","o","n","s">>,
      checks |->
          <<"c","h","e","c","k","s">>,
      actions |->
          <<"a","c","t","i","o","n","s">>,
      contents |->
          <<"c","o","n","t","e","n","t","s">>,
      jobs |->
          <<"j","o","b","s">>,
      job |->
          <<"r","u","n","-","a","u","t","o","g","r","a","d","i","n","g","-","t","e","s","t","s">>,
      container |->
          <<"c","o","n","t","a","i","n","e","r">>,
      image |->
          <<"i","m","a","g","e">>,
      runs_on |->
          <<"r","u","n","s","-","o","n">>,
      steps |->
          <<"s","t","e","p","s">>,
      uses |->
          <<"u","s","e","s">>,
      run |->
          <<"r","u","n">>,
      id |->
          <<"i","d">>,
      with |->
          <<"w","i","t","h">>,
      test_name |->
          <<"t","e","s","t","-","n","a","m","e">>,
      setup_command |->
          <<"s","e","t","u","p","-","c","o","m","m","a","n","d">>,
      command |->
          <<"c","o","m","m","a","n","d">>,
      env |->
          <<"e","n","v">>,
      runners |->
          <<"r","u","n","n","e","r","s">> ]

\* the string constants of the steps
L ==
    [ checkout |->
          <<"a","c","t","i","o","n","s","/","c","h","e","c","k","o","u","t","@","v","4">>,
      install_name |->
          <<"I","n","s","t","a","l","l"," ","d","e","p","e","n","d","e","n","c","i","e","s"," ","(", "n","o","d","e",","," ","g","i","t",","," ","j","q",")">>,
      grader |->
          <<"c","l","a","s","s","r","o","o","m","-","r","e","s","o","u","r","c","e","s","/","a","u", "t","o","g","r","a","d","i","n","g","-","c","o","m","m","a","n","d","-","g","r","a","d", "e","r","@","v","1">>,
      assign |->
          <<"A","s","s","i","g","n"," ","f","i","l","e"," ","c","o","n","t","e","n","t","s"," ","t", "o"," ">>,
      RESULTS |->
          <<"_","R","E","S","U","L","T","S">>,
      env_open |->
          <<"$","{","{"," ","e","n","v",".">>,
      env_close |->
          <<"_","R","E","S","U","L","T","S"," ","}","}">>,
      reporter |->
          <<"c","l","a","s","s","r","o","o","m","-","r","e","s","o","u","r","c","e","s","/","a","u", "t","o","g","r","a","d","i","n","g","-","g","r","a","d","i","n","g","-","r","e","p","o", "r","t","e","r","@","v","1">> ]

(***************************************************************************)
(* Python values.                                                          *)
(***************************************************************************)
Str(chars) == <<"str", chars>>
Map(pairs) == <<"map", pairs>>
List(items) == <<"seq", items>>
BlankLine == <<"blank", <<>>>>

IsStr(v) == v[1] = "str"

HasKey(m, k) == \E i \in 1..Len(m[2]) : m[2][i][1] = k

\* m[k]
Get(m, k) == m[2][CHOOSE i \in 1..Len(m[2]) : m[2][i][1] = k][2]

\* m[k] = v on an insertion-ordered dict: a key already present keeps its
\* place and takes the new value
DictSet(m, k, v) ==
    IF HasKey(m, k)
    THEN Map([i \in 1..Len(m[2]) |-> IF m[2][i][1] = k THEN <<k, v>> ELSE m[2][i]])
    ELSE Map(Append(m[2], <<k, v>>))

(***************************************************************************)
(* build_workflow (lines 66-139).                                          *)
(***************************************************************************)
CheckoutStep == Map(<< <<K.uses, Str(L.checkout)>> >>)

InstallStep ==
    LET L_install_run ==
            <<"a","p","t","-","g","e","t"," ","u","p","d","a","t","e","\n","a","p","t","-","g","e","t",
              " ","i","n","s","t","a","l","l"," ","-","y"," ","n","o","d","e","j","s"," ","g","i","t",
              " ","j","q","\n","a","p","t","-","g","e","t"," ","c","l","e","a","n","\n","r","m"," ","-",
              "r","f"," ","/","v","a","r","/","l","i","b","/","a","p","t","/","l","i","s","t","s","/",
              "*","\n">>
    IN
        Map(<< <<K.name, Str(L.install_name)>>, <<K.run, Str(L_install_run)>> >>)

\* lines 116-120
GradingCommand(slug_clean, name) ==
    LET L_check50 ==
            <<"c","h","e","c","k","5","0"," ">>
        L_dev_json ==
            <<" ","-","-","d","e","v"," ","-","o"," ","j","s","o","n"," ">>
        L_autograder_opt ==
            <<"-","-","a","u","t","o","g","r","a","d","e","r"," ",".","/","a","u","t","o","g","r","a",
              "d","e","r","/">>
        L_json_sp ==
            <<".","j","s","o","n"," ">>
        L_feedback_opt ==
            <<"-","-","f","e","e","d","b","a","c","k"," ",".","/","f","e","e","d","b","a","c","k","/">>
        L_txt ==
            <<".","t","x","t">>
    IN
        L_check50 \o slug_clean \o L_dev_json
        \o L_autograder_opt \o name \o L_json_sp
        \o L_feedback_opt \o name \o L_txt

\* lines 106-122
GradingStep(slug_clean, name) ==
    LET L_setup ==
            <<"p","i","p"," ","u","n","i","n","s","t","a","l","l"," ","-","y"," ","c","h","e","c","k",
              "5","0","\n","p","i","p"," ","i","n","s","t","a","l","l"," ","-","-","n","o","-","c","a",
              "c","h","e","-","d","i","r"," ","g","i","t","+","h","t","t","p","s",":","/","/","g","i",
              "t","h","u","b",".","c","o","m","/","d","h","o","d","c","z","2","/","c","h","e","c","k",
              "5","0",".","g","i","t","\n">>
    IN
        Map(<< <<K.name, Str(name)>>,
               <<K.id, Str(name)>>,
               <<K.uses, Str(L.grader)>>,
               <<K.with, Map(<< <<K.test_name, Str(name)>>,
                                <<K.setup_command, Str(L_setup)>>,
                                <<K.command, Str(GradingCommand(slug_clean, name))>> >>)>> >>)

\* line 126
ExportCommand(name) ==
    LET L_echo ==
            <<"e","c","h","o"," ","\"">>
        L_base64 ==
            <<"_","R","E","S","U","L","T","S","=","$","(","b","a","s","e","6","4"," ","-","w","0"," ",
              ".","/">>
        L_json_env ==
            <<".","j","s","o","n",")","\""," ",">",">"," ","$","G","I","T","H","U","B","_","E","N","V">>
    IN
        L_echo \o name \o L_base64 \o name \o L_json_env

\* lines 124-127
ExportStep(name) ==
    Map(<< <<K.name, Str(L.assign \o name \o L.RESULTS)>>,
           <<K.run, Str(ExportCommand(name))>> >>)

\* lines 100-104: slug_names
SlugNames(slugs) == [i \in 1..Len(slugs) |-> SlugName(slugs[i])]

\* lines 101-127: the two steps each slug appends, in the order of the slugs
RECURSIVE SlugSteps(_)
SlugSteps(slugs) ==
    IF Len(slugs) = 0 THEN <<>>
    ELSE << GradingStep(SlugClean(slugs[1]), SlugName(slugs[1])),
            ExportStep(SlugName(slugs[1])) >>
         \o SlugSteps(Tail(slugs))

EnvKey(name) == name \o L.RESULTS
EnvValue(name) == Str(L.env_open \o name \o L.env_close)

\* a list of pairs in place of the dict: a repeated name repeats its entry
EnvMapKeepingDuplicates(slug_names) ==
    Map([i \in 1..Len(slug_names) |->
            <<EnvKey(slug_names[i]), EnvValue(slug_names[i])>>])

\* line 129: the dict comprehension, one assignment per produced name
RECURSIVE EnvMap(_)
EnvMap(slug_names) ==
    IF Len(slug_names) = 0 THEN Map(<<>>)
    ELSE LET s == slug_names[Len(slug_names)]
         IN DictSet(EnvMap(SubSeq(slug_names, 1, Len(slug_names) - 1)),
                    EnvKey(s), EnvValue(s))

\* lines 130-137
ReporterStep(slug_names) ==
    LET L_reporter_name ==
            <<"A","u","t","o","g","r","a","d","i","n","g"," ","R","e","p","o","r","t","e","r">>
        L_space ==
            <<" ">>
    IN
        Map(<< <<K.name, Str(L_reporter_name)>>,
               <<K.uses, Str(L.reporter)>>,
               <<K.env, EnvMap(slug_names)>>,
               <<K.with, Map(<< <<K.runners, Str(join(L_space, slug_names))>> >>)>> >>)

\* the reporter appended before the loop over the slugs instead of after it
WorkflowStepsReporterFirst(slugs) ==
    <<CheckoutStep, InstallStep, ReporterStep(SlugNames(slugs))>> \o SlugSteps(slugs)

\* lines 82-95, 101-127, 130-137: the step list as build_workflow leaves it
WorkflowSteps(slugs) ==
    <<CheckoutStep, InstallStep>> \o SlugSteps(slugs) \o <<ReporterStep(SlugNames(slugs))>>

build_workflow(ns) ==
    LET L_workflow_name ==
            <<"A","u","t","o","g","r","a","d","i","n","g"," ","T","e","s","t","s">>
        L_write ==
            <<"w","r","i","t","e">>
        L_read ==
            <<"r","e","a","d">>
        L_image ==
            <<"p","y","t","h","o","n",":","3",".","1","2","-","s","l","i","m">>
        L_ubuntu ==
            <<"u","b","u","n","t","u","-","l","a","t","e","s","t">>
    IN
        Map(<< <<K.name, Str(L_workflow_name)>>,
               <<K.on, Map(<< <<K.push, Map(<<>>)>>,
                              <<K.repository_dispatch, Map(<<>>)>> >>)>>,
               <<K.permissions, Map(<< <<K.checks, Str(L_write)>>,
                                       <<K.actions, Str(L_read)>>,
                                       <<K.contents, Str(L_read)>> >>)>>,
               <<K.jobs, Map(<< <<K.job,
                   Map(<< <<K.container, Map(<< <<K.image, Str(L_image)>> >>)>>,
                          <<K.runs_on, Str(L_ubuntu)>>,
                          <<K.steps, List(WorkflowSteps(ns.slugs))>> >>)>> >>)>> >>)

\* workflow['jobs']['run-autograding-tests']['steps']
StepsOf(wf) == Get(Get(Get(wf, K.jobs), K.job), K.steps)[2]

(***************************************************************************)
(* BlankLineStepsDumper (lines 12-64): the representers.                   *)
(*                                                                         *)
(* A node is <<"scalar", value, style>> (style "" when none is asked for), *)
(* <<"mapping", <<key node, value node>>...>>, <<"sequence", nodes>> or    *)
(* <<"raise", exception>>.                                                 *)
(***************************************************************************)
\* lines 16-19
str_presenter(data) ==
    IF Contains(data, "\n") THEN <<"scalar", data, "|">> ELSE <<"scalar", data, "">>

\* lines 24-26
blank_line_presenter == <<"scalar", <<>>, "|">>

\* The attributes of a yaml.Dumper instance that the representer sets up
\* (BaseRepresenter.__init__); recursive_objects belongs to the constructor
\* classes and is not among them.
DumperAttributes ==
    {"default_style", "sort_keys", "default_flow_style", "represented_objects",
     "object_keeper", "alias_key"}

\* yaml_representers[list] of BlankLineStepsDumper.  represent_data looks
\* the representer up in this registry; the registry is filled by
\* add_representer only (lines 21 and 28 add str and BlankLine), and the
\* assignment of line 64 rebinds the class attribute represent_list, which
\* the registry does not read.  The entry for list therefore stays the one
\* inherited from SafeRepresenter, captured at line 31.
ListRepresenter == "original_list_representer"

\* lines 50-58: a BlankLine before every item but the first
RECURSIVE InsertBlankLines(_)
InsertBlankLines(data) ==
    IF Len(data) <= 1 THEN data
    ELSE InsertBlankLines(SubSeq(data, 1, Len(data) - 1))
         \o <<BlankLine, data[Len(data)]>>

RECURSIVE represent_data(_, _)
RECURSIVE original_list_representer(_)
RECURSIVE represent_list_with_extra_blank_lines(_, _)
RECURSIVE represent_list_entry(_, _)

\* SafeRepresenter.represent_list, captured at line 31
original_list_representer(data) ==
    <<"sequence", [i \in 1..Len(data) |-> represent_data(data[i], <<>>)]>>

\* lines 33-61; parent_key is the key under which the enclosing dict holds
\* data (<<>> when data is not a dict value), which is what lines 40-48
\* look for in self.recursive_objects
represent_list_with_extra_blank_lines(data, parent_key) ==
    IF "recursive_objects" \notin DumperAttributes
    THEN <<"raise", "AttributeError">>
    ELSE LET is_steps == parent_key = K.steps
         IN IF is_steps /\ Len(data) > 1
            THEN original_list_representer(InsertBlankLines(data))
            ELSE original_list_representer(data)

\* the override of lines 33-61 had it been dispatched with a working test
\* for the steps list: BlankLine entries between the steps
blank_lines_between_steps(data, parent_key) ==
    IF parent_key = K.steps /\ Len(data) > 1
    THEN original_list_representer(InsertBlankLines(data))
    ELSE original_list_representer(data)

\* self.yaml_representers[list](self, data) in represent_data
represent_list_entry(data, parent_key) ==
    IF ListRepresenter = "represent_list_with_extra_blank_lines"
    THEN represent_list_with_extra_blank_lines(data, parent_key)
    ELSE original_list_representer(data)

\* BaseRepresenter.represent_data: dispatch on the type of data
represent_data(data, parent_key) ==
    CASE data[1] = "str" -> str_presenter(data[2])
      [] data[1] = "blank" -> blank_line_presenter
      [] data[1] = "map" ->
            <<"mapping", [i \in 1..Len(data[2]) |->
                  << represent_data(Str(data[2][i][1]), <<>>),
                     represent_data(data[2][i][2], data[2][i][1]) >>]>>
      [] data[1] = "seq" -> represent_list_entry(data[2], parent_key)

\* whether representing raised
RECURSIVE Raises(_)
Raises(node) ==
    CASE node[1] = "raise" -> TRUE
      [] node[1] = "scalar" -> FALSE
      [] node[1] = "sequence" -> \E i \in 1..Len(node[2]) : Raises(node[2][i])
      [] node[1] = "mapping" ->
            \E i \in 1..Len(node[2]) : Raises(node[2][i][1]) \/ Raises(node[2][i][2])

(***************************************************************************)
(* Characters.  A character is a one-character string; the characters a    *)
(* string of this notation cannot hold are written by their code point.    *)
(***************************************************************************)
Backtick == "U+0060"
NUL == "U+0000"
NEL == "U+0085"
LineSeparator == "U+2028"
ParagraphSeparator == "U+2029"

\* '\x20' <= ch <= '\x7E'
Printable ==
    {
      " ", "!", "\"", "#", "$", "%", "&", "'", "(", ")", "*", "+",
      ",", "-", ".", "/", "0", "1", "2", "3", "4", "5", "6", "7",
      "8", "9", ":", ";", "<", "=", ">", "?", "@", "A", "B", "C",
      "D", "E", "F", "G", "H", "I", "J", "K", "L", "M", "N", "O",
      "P", "Q", "R", "S", "T", "U", "V", "W", "X", "Y", "Z", "[",
      "\\", "]", "^", "_", Backtick, "a", "b", "c", "d", "e", "f", "g",
      "h", "i", "j", "k", "l", "m", "n", "o", "p", "q", "r", "s",
      "t", "u", "v", "w", "x", "y", "z", "{", "|", "}", "~" }

(***************************************************************************)
(* Regular expressions, for the patterns of the resolver: <<"set", S>> is  *)
(* one character of S, <<"seq", parts>> the parts one after the other,     *)
(* <<"alt", choices>> one of the choices, <<"star", r>> any number of r,   *)
(* <<"opt", r>> r or nothing.                                              *)
(***************************************************************************)
RECURSIVE Ends(_, _, _)
RECURSIVE EndsSeq(_, _, _, _)
RECURSIVE EndsStar(_, _, _)

\* the positions at which a match of r that starts at position i of s ends
Ends(r, s, i) ==
    CASE r[1] = "set" -> IF i <= Len(s) /\ s[i] \in r[2] THEN {i + 1} ELSE {}
      [] r[1] = "seq" -> EndsSeq(r[2], 1, s, {i})
      [] r[1] = "alt" -> UNION {Ends(r[2][k], s, i) : k \in 1..Len(r[2])}
      [] r[1] = "star" -> EndsStar(r[2], s, {i})
      [] r[1] = "opt" -> {i} \cup Ends(r[2], s, i)

EndsSeq(parts, k, s, from) ==
    IF k > Len(parts) THEN from
    ELSE EndsSeq(parts, k + 1, s, UNION {Ends(parts[k], s, j) : j \in from})

EndsStar(r, s, from) ==
    LET more == from \cup UNION {Ends(r, s, j) : j \in from}
    IN IF more = from THEN from ELSE EndsStar(r, s, more)

\* regexp.match(s) for a pattern ^(?:r)$: $ matches at the end of s and
\* before a line break that ends s
Matches(r, s) ==
    LET e == Ends(r, s, 1)
    IN \/ (Len(s) + 1) \in e
       \/ Len(s) > 0 /\ s[Len(s)] = "\n" /\ Len(s) \in e

OneOf(S) == <<"set", S>>
Star(r) == <<"star", r>>
Plus(r) == <<"seq", <<r, <<"star", r>>>>>>
Opt(r) == <<"opt", r>>

(***************************************************************************)
(* The implicit resolvers of PyYAML (yaml/resolver.py, YAML 1.1), in the   *)
(* order they are registered.                                              *)
(***************************************************************************)
Sign == Opt(OneOf({"-", "+"}))
Digit == OneOf(Digits)
DigitsOrUnderscores == Star(OneOf(Digits \cup {"_"}))

\* (?::[0-5]?[0-9])+
Sexagesimal == Plus(<<"seq", <<OneOf({":"}), Opt(OneOf({"0", "1", "2", "3", "4", "5"})), Digit>>>>)

\* [-+]?(?:[0-9][0-9_]*)\.[0-9_]*(?:[eE][-+][0-9]+)?
\* |\.[0-9][0-9_]*(?:[eE][-+][0-9]+)?
\* |[-+]?[0-9][0-9_]*(?::[0-5]?[0-9])+\.[0-9_]*
\* |[-+]?\.(?:inf|Inf|INF)
\* |\.(?:nan|NaN|NAN)
FloatForms ==
    LET Exponent == Opt(<<"seq", <<OneOf({"e", "E"}), OneOf({"-", "+"}), Plus(Digit)>>>>)
    IN <<"alt", <<
        <<"seq", <<Sign, Digit, DigitsOrUnderscores, OneOf({"."}),
                   DigitsOrUnderscores, Exponent>>>>,
        <<"seq", <<OneOf({"."}), Digit, DigitsOrUnderscores, Exponent>>>>,
        <<"seq", <<Sign, Digit, DigitsOrUnderscores, Sexagesimal, OneOf({"."}),
                   DigitsOrUnderscores>>>> >>>>

IsFloatForm(s) ==
    LET InfWords == { <<"i","n","f">>, <<"I","n","f">>, <<"I","N","F">> }
        NanWords == { <<"n","a","n">>, <<"N","a","N">>, <<"N","A","N">> }
    IN
        \/ Matches(FloatForms, s)
        \/ \E u \in DollarForms(s) :
              \/ Len(u) >= 1 /\ u[1] = "." /\ Tail(u) \in InfWords \cup NanWords
              \/ Len(u) >= 2 /\ u[1] \in {"-", "+"} /\ u[2] = "."
                    /\ SubSeq(u, 3, Len(u)) \in InfWords

\* [-+]?0b[0-1_]+
\* |[-+]?0[0-7_]+
\* |[-+]?(?:0|[1-9][0-9_]*)
\* |[-+]?0x[0-9a-fA-F_]+
\* |[-+]?[1-9][0-9_]*(?::[0-5]?[0-9])+
IntForms ==
    LET OctalDigits == {"0", "1", "2", "3", "4", "5", "6", "7"}
        HexDigits == Digits \cup {"a", "b", "c", "d", "e", "f", "A", "B", "C", "D", "E", "F"}
    IN
        <<"alt", <<
            <<"seq", <<Sign, OneOf({"0"}), OneOf({"b"}), Plus(OneOf({"0", "1", "_"}))>>>>,
            <<"seq", <<Sign, OneOf({"0"}), Plus(OneOf(OctalDigits \cup {"_"}))>>>>,
            <<"seq", <<Sign, OneOf({"0"})>>>>,
            <<"seq", <<Sign, OneOf(Digits \ {"0"}), DigitsOrUnderscores>>>>,
            <<"seq", <<Sign, OneOf({"0"}), OneOf({"x"}), Plus(OneOf(HexDigits \cup {"_"}))>>>>,
            <<"seq", <<Sign, OneOf(Digits \ {"0"}), DigitsOrUnderscores, Sexagesimal>>>> >>>>

IsIntForm(s) == Matches(IntForms, s)

\* [0-9][0-9][0-9][0-9]-[0-9][0-9]-[0-9][0-9]
\* |[0-9][0-9][0-9][0-9]-[0-9][0-9]?-[0-9][0-9]?(?:[Tt]|[ \t]+)[0-9][0-9]?
\*  :[0-9][0-9]:[0-9][0-9](?:\.[0-9]*)?
\*  (?:[ \t]*(?:Z|[-+][0-9][0-9]?(?::[0-9][0-9])?))?
TimestampForms ==
    LET Blanks == OneOf({" ", "\t"})
    IN
        <<"alt", <<
            <<"seq", <<Digit, Digit, Digit, Digit, OneOf({"-"}), Digit, Digit,
                       OneOf({"-"}), Digit, Digit>>>>,
            <<"seq", <<Digit, Digit, Digit, Digit, OneOf({"-"}), Digit, Opt(Digit),
                       OneOf({"-"}), Digit, Opt(Digit),
                       <<"alt", <<OneOf({"T", "t"}), Plus(Blanks)>>>>,
                       Digit, Opt(Digit), OneOf({":"}), Digit, Digit,
                       OneOf({":"}), Digit, Digit,
                       Opt(<<"seq", <<OneOf({"."}), Star(Digit)>>>>),
                       Opt(<<"seq", <<Star(Blanks),
                              <<"alt", <<OneOf({"Z"}),
                                 <<"seq", <<OneOf({"-", "+"}), Digit, Opt(Digit),
                                    Opt(<<"seq", <<OneOf({":"}), Digit, Digit>>>>)>>>> >>>> >>>>)
                     >>>> >>>>

\* the implicit resolvers registered for the first character ch of a value
\* ("" for the empty value), in the order of registration
ResolversFor(ch) ==
    SelectSeq(<<"bool", "float", "int", "merge", "null", "timestamp", "value", "yaml">>,
              LAMBDA tag :
                 CASE tag = "bool" -> ch \in {"y", "Y", "n", "N", "t", "T", "f", "F", "o", "O"}
                   [] tag = "float" -> ch \in Digits \cup {"-", "+", "."}
                   [] tag = "int" -> ch \in Digits \cup {"-", "+"}
                   [] tag = "merge" -> ch = "<"
                   [] tag = "null" -> ch \in {"~", "n", "N", ""}
                   [] tag = "timestamp" -> ch \in Digits
                   [] tag = "value" -> ch = "="
                   [] tag = "yaml" -> ch \in {"!", "&", "*"})

\* regexp.match(value) for the regexp registered with tag
ResolverMatches(tag, value) ==
    LET BoolWords ==
            { <<"y","e","s">>,
              <<"Y","e","s">>,
              <<"Y","E","S">>,
              <<"n","o">>,
              <<"N","o">>,
              <<"N","O">>,
              <<"t","r","u","e">>,
              <<"T","r","u","e">>,
              <<"T","R","U","E">>,
              <<"f","a","l","s","e">>,
              <<"F","a","l","s","e">>,
              <<"F","A","L","S","E">>,
              <<"o","n">>,
              <<"O","n">>,
              <<"O","N">>,
              <<"o","f","f">>,
              <<"O","f","f">>,
              <<"O","F","F">> }
        NullWords ==
            { <<"~">>,
              <<"n","u","l","l">>,
              <<"N","u","l","l">>,
              <<"N","U","L","L">>,
              <<>> }
        IsTimestampForm(s) == Matches(TimestampForms, s)
        IsBoolForm(s) == \E u \in DollarForms(s) : u \in BoolWords
        IsNullForm(s) == \E u \in DollarForms(s) : u \in NullWords
    IN
        CASE tag = "bool" -> IsBoolForm(value)
          [] tag = "float" -> IsFloatForm(value)
          [] tag = "int" -> IsIntForm(value)
          [] tag = "merge" -> \E u \in DollarForms(value) : u = <<"<", "<">>
          [] tag = "null" -> IsNullForm(value)
          [] tag = "timestamp" -> IsTimestampForm(value)
          [] tag = "value" -> \E u \in DollarForms(value) : u = <<"=">>
          [] tag = "yaml" -> \E u \in DollarForms(value) : u \in {<<"!">>, <<"&">>, <<"*">>}

\* Resolver.resolve(ScalarNode, value, (True, False)): the tag of a plain
\* scalar, that of the first resolver for its first character that matches
ImplicitTag(value) ==
    LET resolvers == ResolversFor(IF value = <<>> THEN "" ELSE value[1])
        matching == SelectSeq(resolvers, LAMBDA tag : ResolverMatches(tag, value))
    IN IF Len(matching) > 0 THEN matching[1] ELSE "str"

(***************************************************************************)
(* The emitter: which style a scalar is written in (Emitter.analyze_scalar *)
(* and choose_scalar_style, in block context), and the events it writes.   *)
(* The file is modelled as the sequence of events a YAML parser reads back *)
(* from it: <<"map_start">>, <<"map_end">>, <<"seq_start">>, <<"seq_end">>,*)
(* and <<"scalar", text, style>> with style "plain", "single", "double",   *)
(* or the header of a block scalar: | or >, followed by its indentation    *)
(* and chomping indicators.                                                *)
(*                                                                         *)
(* What is modelled of the text is what decides the value read back: the   *)
(* style of each scalar, the hints of a block scalar and the nesting.  The *)
(* characters of the text itself are not: it is taken as given that the    *)
(* scanner and the parser of PyYAML read from the text the emitter wrote   *)
(* the events the emitter was given, each scalar with the characters and   *)
(* the style it was written with (for a block scalar, the characters as    *)
(* Chomp leaves them), so that escapes, quotes, indentation and the        *)
(* folding of long lines undo what the emitter did.                        *)
(***************************************************************************)
\* the characters analyze_scalar takes for white space
Whitespace == {NUL, " ", "\t", "\r", "\n", NEL, LineSeparator, ParagraphSeparator}

\* the characters analyze_scalar takes for line breaks
Breaks == {"\n", NEL, LineSeparator, ParagraphSeparator}

FollowedByWhitespace(s, i) == i + 1 > Len(s) \/ s[i + 1] \in Whitespace
PrecededByWhitespace(s, i) == i = 1 \/ s[i - 1] \in Whitespace

BlockIndicators(s) ==
    \/ StartsWith(s, <<"-", "-", "-">>)
    \/ StartsWith(s, <<".", ".", ".">>)
    \/ \E i \in 1..Len(s) :
          IF i = 1
          THEN \/ s[i] \in {"#", ",", "[", "]", "{", "}", "&", "*", "!", "|", ">",
                            "'", "\"", "%", "@", Backtick}
               \/ s[i] \in {"?", ":", "-"} /\ FollowedByWhitespace(s, i)
          ELSE \/ s[i] = ":" /\ FollowedByWhitespace(s, i)
               \/ s[i] = "#" /\ PrecededByWhitespace(s, i)

LineBreaks(s) == \E i \in 1..Len(s) : s[i] \in Breaks

\* a character other than '\n' and those from '\x20' to '\x7E'; the dumper
\* is made without allow_unicode
SpecialCharacters(s) == \E i \in 1..Len(s) : s[i] \notin Printable \cup {"\n"}

LeadingOrTrailingBlank(s) ==
    Len(s) > 0 /\ (s[1] \in {" "} \cup Breaks \/ s[Len(s)] \in {" "} \cup Breaks)
BreakSpace(s) == \E i \in 1..(Len(s) - 1) : s[i] \in Breaks /\ s[i + 1] = " "
SpaceBreak(s) == \E i \in 1..(Len(s) - 1) : s[i] = " " /\ s[i + 1] \in Breaks

\* ScalarAnalysis.allow_block_plain, allow_single_quoted, allow_block
AllowBlockPlain(s) ==
    /\ ~LeadingOrTrailingBlank(s)
    /\ ~BreakSpace(s)
    /\ ~SpaceBreak(s)
    /\ ~SpecialCharacters(s)
    /\ ~LineBreaks(s)
    /\ ~BlockIndicators(s)
AllowSingleQuoted(s) == ~BreakSpace(s) /\ ~SpaceBreak(s) /\ ~SpecialCharacters(s)
AllowBlock(s) ==
    /\ Len(s) > 0
    /\ s[Len(s)] # " "
    /\ ~SpaceBreak(s)
    /\ ~SpecialCharacters(s)

\* Emitter.determine_block_hints: the indentation indicator, for a text
\* that starts with a space or a line break, and the chomping indicator
BlockHint(s) ==
    LET BestIndent == "2"   \* Emitter.best_indent, as it is written
    IN IF Len(s) = 0 THEN ""
       ELSE (IF s[1] \in {" "} \cup Breaks THEN BestIndent ELSE "")
            \o (IF s[Len(s)] \notin Breaks THEN "-"
                ELSE IF Len(s) = 1 \/ s[Len(s) - 1] \in Breaks THEN "+"
                ELSE "")

\* Emitter.write_literal: the lines of a block scalar as they stand in the
\* file, the last of them always ended
BlockText(s) ==
    IF Len(s) > 0 /\ s[Len(s)] \notin Breaks THEN Append(s, "\n") ELSE s

\* Emitter.choose_scalar_style outside a flow collection; style is that of
\* the event ("" for None), the result "plain", "single", "double", or the
\* block style asked for
choose_scalar_style(value, style, simple_key) ==
    IF style = "\"" THEN "double"
    ELSE IF /\ style = ""
            /\ ImplicitTag(value) = "str"
            /\ ~(simple_key /\ (Len(value) = 0 \/ LineBreaks(value)))
            /\ AllowBlockPlain(value)
    THEN "plain"
    ELSE IF style \in {"|", ">"} /\ ~simple_key /\ AllowBlock(value)
    THEN style
    ELSE IF style \in {"", "'"} /\ AllowSingleQuoted(value)
            /\ ~(simple_key /\ LineBreaks(value))
    THEN "single"
    ELSE "double"

\* Emitter.process_scalar: the scalar as it is written
ScalarEvent(value, style, simple_key) ==
    LET chosen == choose_scalar_style(value, style, simple_key)
    IN IF chosen \in {"|", ">"}
       THEN <<"scalar", BlockText(value), chosen \o BlockHint(value)>>
       ELSE <<"scalar", value, chosen>>

\* the length of the tag !!str, which check_simple_key counts with the key
PreparedTagLength == 5

\* the length from which a key is no longer written as a simple key
SimpleKeyLimit == 128

\* Emitter.check_simple_key for a scalar node: short, not empty, on one line
check_simple_key(node) ==
    /\ node[1] = "scalar"
    /\ PreparedTagLength + Len(node[2]) < SimpleKeyLimit
    /\ Len(node[2]) > 0
    /\ ~LineBreaks(node[2])

\* Serializer.serialize_node and the emitter: the events of a node
RECURSIVE Serialize(_, _)
RECURSIVE SerializeItems(_, _)
RECURSIVE SerializePairs(_, _)

SerializeItems(items, i) ==
    IF i > Len(items) THEN <<>>
    ELSE Serialize(items[i], FALSE) \o SerializeItems(items, i + 1)

\* a key is written in the simple key context when check_simple_key holds,
\* and after the indicator ? otherwise
SerializePairs(pairs, i) ==
    IF i > Len(pairs) THEN <<>>
    ELSE Serialize(pairs[i][1], check_simple_key(pairs[i][1]))
         \o Serialize(pairs[i][2], FALSE)
         \o SerializePairs(pairs, i + 1)

Serialize(node, simple_key) ==
    CASE node[1] = "scalar" -> <<ScalarEvent(node[2], node[3], simple_key)>>
      [] node[1] = "sequence" ->
            <<<<"seq_start">>>> \o SerializeItems(node[2], 1) \o <<<<"seq_end">>>>
      [] node[1] = "mapping" ->
            <<<<"map_start">>>> \o SerializePairs(node[2], 1) \o <<<<"map_end">>>>

(***************************************************************************)
(* Reading the file back (yaml.safe_load): the chomping of block scalars   *)
(* by the scanner, the composer with the implicit resolver on plain        *)
(* scalars, and the safe constructor.  A node is <<"scalar", tag, value>>, *)
(* <<"sequence", nodes>> or <<"mapping", pairs of nodes>>.  A scalar that  *)
(* resolves to another type than str is constructed as <<type, text>>,     *)
(* where text writes the value in one way only, so that two texts are      *)
(* equal when the values are:                                              *)
(*   <<"null", <<>>>>;                                                     *)
(*   <<"bool", n>>, <<"int", n>>, <<"float", n>>, where n is "0" or the    *)
(*   sign, the decimal digits without zeros at either end, "e" and the     *)
(*   power of ten, as <<"-", "1", "5", "e", "-", "1">> for -1.5; a float   *)
(*   can also be <<"inf">>, <<"-", "inf">> and <<"nan">>;                  *)
(*   <<"date", year-month-day>> and <<"datetime", ...>>, with "utc", the   *)
(*   day and the second of the day in UTC when there is a time zone.       *)
(* The value of a float is that of the double float() makes of the text,   *)
(* rounded as IEEE 754 rounds, so that '1.00000000000000001' and '1.0'     *)
(* are one float and equal the int 1.                                      *)
(* Loading that raises an exception gives Raise.                           *)
(***************************************************************************)
Raise == <<"raise", <<>>>>

\* the decimal digits, in order
DigitChars == <<"0", "1", "2", "3", "4", "5", "6", "7", "8", "9">>

\* the value of a digit of base 16 or less
DigitValue(c) ==
    LET small == <<"0", "1", "2", "3", "4", "5", "6", "7",
                   "8", "9", "a", "b", "c", "d", "e", "f">>
        capital == <<"0", "1", "2", "3", "4", "5", "6", "7",
                   "8", "9", "A", "B", "C", "D", "E", "F">>
    IN (CHOOSE n \in 1..16 : small[n] = c \/ capital[n] = c) - 1

\* str(n) for an int n
RECURSIVE IntChars(_)
IntChars(n) ==
    IF n < 0 THEN <<"-">> \o IntChars(0 - n)
    ELSE IF n < 10 THEN <<DigitChars[n + 1]>>
    ELSE Append(IntChars(n \div 10), DigitChars[(n % 10) + 1])

(***************************************************************************)
(* Python's int has no largest value.  A natural number is the sequence of *)
(* its decimal digits, the most significant first and not 0; 0 is <<>>.    *)
(* The operators divide the digits in halves, so that a number of some     *)
(* hundred digits is within reach.                                         *)
(***************************************************************************)
\* a sequence of digits without the zeros in front
Natural(x) ==
    IF \A i \in 1..Len(x) : x[i] = 0 THEN <<>>
    ELSE SubSeq(x, CHOOSE i \in 1..Len(x) : x[i] # 0 /\ \A j \in 1..(i - 1) : x[j] = 0,
                Len(x))

\* the digits at places lo..hi of the number that has the amount v[i] at
\* place i, with the carry c coming into place hi: d has them from place
\* hi back to place lo, and c is the carry out of place lo
RECURSIVE Carry(_, _, _, _)
Carry(v, lo, hi, c) ==
    IF lo = hi
    THEN LET t == v[lo] + c IN [d |-> <<t % 10>>, c |-> t \div 10]
    ELSE LET mid == (lo + hi) \div 2
             low == Carry(v, mid + 1, hi, c)
             high == Carry(v, lo, mid, low.c)
         IN [d |-> low.d \o high.d, c |-> high.c]

\* the natural number that has the amount v[i] at place i, the last place
\* being the units, and c more units; what goes below 0 at the first
\* place is dropped
Places(v, c) ==
    LET n == Len(v)
        r == Carry(v, 1, n, c)
        RECURSIVE Small(_)
        Small(k) == IF k <= 0 THEN <<>> ELSE Append(Small(k \div 10), k % 10)
    IN IF n = 0 THEN Small(c)
       ELSE Natural(Small(r.c) \o [i \in 1..n |-> r.d[n + 1 - i]])

\* x * m + c, for a natural number x and m, c below 10^8
MulAdd(x, m, c) == Places([i \in 1..Len(x) |-> x[i] * m], c)

\* x + y of natural numbers
Add(x, y) ==
    LET n == IF Len(x) > Len(y) THEN Len(x) ELSE Len(y)
        At(s, i) == IF i > n - Len(s) THEN s[i - (n - Len(s))] ELSE 0
    IN Places([i \in 1..n |-> At(x, i) + At(y, i)], 0)

\* x * b^k for a natural number x and b in {2, 5}
RECURSIVE Scale(_, _, _)
Scale(x, b, k) ==
    LET most == IF b = 2 THEN 26 ELSE 11
    IN IF k = 0 \/ x = <<>> THEN x
       ELSE IF k <= most THEN MulAdd(x, b ^ k, 0)
       ELSE Scale(Scale(x, b, k \div 2), b, k - k \div 2)

\* x * y, for a natural number x and a sequence of digits y, eight digits
\* of y at a time
RECURSIVE Mul(_, _)
Mul(x, y) ==
    LET n == Len(y)
        half == ((n + 15) \div 16) * 8
        RECURSIVE Small(_)
        Small(d) == IF d = <<>> THEN 0 ELSE 10 * Small(SubSeq(d, 1, Len(d) - 1)) + d[Len(d)]
        high == Mul(x, SubSeq(y, 1, n - half))
        low == Mul(x, SubSeq(y, n - half + 1, n))
    IN IF n <= 8 THEN MulAdd(x, Small(y), 0)
       ELSE Add(IF high = <<>> THEN <<>> ELSE high \o [i \in 1..half |-> 0], low)

\* the one way to write sign * digits * 10^exp
Number(negative, digits, exp) ==
    LET n == Len(digits)
        last == CHOOSE i \in 1..n : digits[i] # 0 /\ \A j \in (i + 1)..n : digits[j] = 0
        kept == Natural(SubSeq(digits, 1, last))
    IN IF \A i \in 1..n : digits[i] = 0 THEN <<"0">>
       ELSE (IF negative THEN <<"-">> ELSE <<>>)
            \o [i \in 1..Len(kept) |-> DigitChars[kept[i] + 1]]
            \o <<"e">> \o IntChars(exp + n - last)

\* sys.get_int_max_str_digits(): the most digits int() takes in a base
\* that is not a power of 2 (CPython 3.11)
int_max_str_digits == 4300

\* int(text, base) of a text of digits, for base 10, 2, 8 or 16: the
\* natural number, or Raise for the ValueError of a decimal text of more
\* than int_max_str_digits digits
RECURSIVE ParseInt(_, _)
ParseInt(text, base) ==
    LET n == Len(text)
        bits == CASE base = 2 -> 1 [] base = 8 -> 3 [] base = 16 -> 4
    IN IF base = 10
       THEN IF n > int_max_str_digits THEN Raise
            ELSE Natural([i \in 1..n |-> DigitValue(text[i])])
       ELSE IF n = 1 THEN MulAdd(<<>>, 1, DigitValue(text[1]))
       ELSE Add(Scale(ParseInt(SubSeq(text, 1, n \div 2), base), 2, bits * (n - n \div 2)),
                ParseInt(SubSeq(text, n \div 2 + 1, n), base))

\* the sexagesimal branch of construct_yaml_int: for digit in digits:
\* value += digit*base; base *= 60, from the last part to the first, for
\* parts that int() takes.  The arithmetic of int is exact, so the parts
\* lo..hi are done in halves: value is what they add, base is 60 to the
\* number of them
RECURSIVE Base60(_, _, _)
Base60(parts, lo, hi) ==
    IF lo = hi THEN [value |-> ParseInt(parts[lo], 10), base |-> <<6, 0>>]
    ELSE LET mid == (lo + hi) \div 2
             low == Base60(parts, mid + 1, hi)
             high == Base60(parts, lo, mid)
         IN [value |-> Add(Mul(low.base, high.value), low.value),
             base |-> Mul(low.base, high.base)]

\* SafeConstructor.construct_yaml_int
construct_yaml_int(value) ==
    LET bare == SelectSeq(value, LAMBDA c : c # "_")
        negative == bare[1] = "-"
        text == IF bare[1] \in {"+", "-"} THEN Tail(bare) ELSE bare
        parts == split(text, ":")
        AsInt(digits) == <<"int", Number(negative, digits, 0)>>
    IN IF text = <<"0">> THEN AsInt(<<>>)
       ELSE IF StartsWith(text, <<"0", "b">>)
       THEN IF Len(text) = 2 THEN Raise
            ELSE AsInt(ParseInt(SubSeq(text, 3, Len(text)), 2))
       ELSE IF StartsWith(text, <<"0", "x">>)
       THEN IF Len(text) = 2 THEN Raise
            ELSE AsInt(ParseInt(SubSeq(text, 3, Len(text)), 16))
       ELSE IF text[1] = "0" THEN AsInt(ParseInt(text, 8))
       ELSE IF Contains(text, ":")
       THEN \* digits = [int(part) for part in value.split(':')]
            IF \E k \in 1..Len(parts) : Len(parts[k]) > int_max_str_digits THEN Raise
            ELSE AsInt(Base60(parts, 1, Len(parts)).value)
       ELSE IF Len(text) > int_max_str_digits THEN Raise
       ELSE AsInt(ParseInt(text, 10))

(***************************************************************************)
(* Python's float is the IEEE 754 double.  A float that is not negative is *)
(* Double("finite", m, e) for m * 2^e, with a natural number m <= 2^53 and *)
(* e >= -1074, 0.0 being Double("finite", <<>>, 0), or Double("inf", ...). *)
(***************************************************************************)
Double(kind, m, e) == [kind |-> kind, m |-> m, e |-> e]

\* the double nearest to num / den, a tie going to the even one: what
\* float() of a decimal text, float(int) and the arithmetic of floats make
\* of the exact value; inf from 2^1024 - 2^970 on
Round(num, den) ==
    LET dl == Len(num) - Len(den)
        \* not more than the logarithm of num / den to base 2
        guess == IF dl >= 1 THEN ((dl - 1) * 33219) \div 10000
                 ELSE ((dl - 1) * 33220) \div 10000
        n0 == IF guess < 0 THEN Scale(num, 2, 0 - guess) ELSE num
        d0 == IF guess > 0 THEN Scale(den, 2, guess) ELSE den
        \* x < y
        Less(x, y) ==
            LET RECURSIVE FirstDifference(_, _)
                FirstDifference(lo, hi) ==
                    IF lo > hi THEN 0
                    ELSE IF lo = hi THEN (IF x[lo] = y[lo] THEN 0 ELSE lo)
                    ELSE LET mid == (lo + hi) \div 2
                             first == FirstDifference(lo, mid)
                         IN IF first # 0 THEN first ELSE FirstDifference(mid + 1, hi)
                i == FirstDifference(1, Len(x))
            IN IF Len(x) # Len(y) THEN Len(x) < Len(y) ELSE i # 0 /\ x[i] < y[i]
        \* x - y, for x >= y
        Sub(x, y) ==
            LET At(i) == IF i > Len(x) - Len(y) THEN y[i - (Len(x) - Len(y))] ELSE 0
            IN Places([i \in 1..Len(x) |-> x[i] - At(i)], 0)
        \* d and e with 1 <= n0 / d < 2 and n0 / d = num / den / 2^e
        RECURSIVE Normal(_, _)
        Normal(d, e) ==
            LET twice == MulAdd(d, 2, 0)
            IN IF Less(n0, twice) THEN [d |-> d, e |-> e] ELSE Normal(twice, e + 1)
        \* the next k binary digits of r / d, and what is left of r
        RECURSIVE Quotient(_, _, _)
        Quotient(r, d, k) ==
            IF k <= 0 THEN [q |-> <<>>, r |-> r]
            ELSE IF k = 1
            THEN IF Less(r, d) THEN [q |-> <<0>>, r |-> MulAdd(r, 2, 0)]
                 ELSE [q |-> <<1>>, r |-> MulAdd(Sub(r, d), 2, 0)]
            ELSE LET first == Quotient(r, d, k \div 2)
                     second == Quotient(first.r, d, k - k \div 2)
                 IN [q |-> first.q \o second.q, r |-> second.r]
        \* the int of not more than 27 binary digits
        RECURSIVE Binary(_)
        Binary(q) ==
            LET k == Len(q)
            IN IF k = 0 THEN 0
               ELSE IF k = 1 THEN q[1]
               ELSE Binary(SubSeq(q, 1, k \div 2)) * 2 ^ (k - k \div 2)
                    + Binary(SubSeq(q, k \div 2 + 1, k))
        Rounded(normal) ==
            LET e == normal.e
                \* 53 binary digits, fewer for a subnormal number
                nbits == IF e >= -1022 THEN 53 ELSE e + 1075
                parts == Quotient(n0, normal.d, nbits)
                few == IF nbits > 26 THEN 26 ELSE nbits
                q == MulAdd(MulAdd(<<>>, 1, Binary(SubSeq(parts.q, 1, nbits - few))), 2 ^ few,
                            Binary(SubSeq(parts.q, nbits - few + 1, nbits)))
                up == \/ Less(normal.d, parts.r)
                      \/ parts.r = normal.d /\ nbits > 0 /\ parts.q[nbits] = 1
                m == IF up THEN MulAdd(q, 1, 1) ELSE q
            IN IF e > 1023 THEN Double("inf", <<>>, 0)
               ELSE IF nbits < 0 THEN Double("finite", <<>>, 0)
               ELSE IF e = 1023 /\ m = <<9, 0, 0, 7, 1, 9, 9, 2, 5, 4, 7, 4, 0, 9, 9, 2>>
               THEN Double("inf", <<>>, 0)
               ELSE IF m = <<>> THEN Double("finite", <<>>, 0)
               ELSE Double("finite", m, e - nbits + 1)
    IN IF num = <<>> THEN Double("finite", <<>>, 0)
       ELSE IF dl > 310 THEN Double("inf", <<>>, 0)
       ELSE IF dl < -326 THEN Double("finite", <<>>, 0)
       ELSE Rounded(Normal(d0, guess))

\* float(text) of digits, '.', digits and an exponent, without a sign
float(text) ==
    LET e == find(text, "e")
        mantissa == IF e = 0 THEN text ELSE SubSeq(text, 1, e - 1)
        dot == find(mantissa, ".")
        whole == IF dot = 0 THEN mantissa ELSE SubSeq(mantissa, 1, dot - 1)
        fraction == IF dot = 0 THEN <<>> ELSE SubSeq(mantissa, dot + 1, Len(mantissa))
        \* float() takes any number of digits
        Decimal(t) == Natural([i \in 1..Len(t) |-> DigitValue(t[i])])
        digits == Decimal(whole \o fraction)
        written == Decimal(SubSeq(text, e + 2, Len(text)))
        RECURSIVE Small(_)
        Small(d) == IF d = <<>> THEN 0 ELSE 10 * Small(SubSeq(d, 1, Len(d) - 1)) + d[Len(d)]
        \* an exponent of more than six digits decides by itself
        size == IF Len(written) > 6 THEN 1000000 ELSE Small(written)
        \* the text says digits * 10^exp
        exp == (IF e = 0 THEN 0 ELSE IF text[e + 1] = "-" THEN 0 - size ELSE size)
               - Len(fraction)
        magnitude == Len(digits) + exp
        zeros(k) == [i \in 1..k |-> 0]
    IN IF digits = <<>> THEN Double("finite", <<>>, 0)
       ELSE IF magnitude > 310 THEN Double("inf", <<>>, 0)
       ELSE IF magnitude < -326 THEN Double("finite", <<>>, 0)
       ELSE IF exp >= 0 THEN Round(digits \o zeros(exp), <<1>>)
       ELSE Round(digits, <<1>> \o zeros(0 - exp))

\* the value of sign * x, for a float x that is not negative: the decimal
\* digits of m * 2^e
FloatNumber(negative, x) ==
    IF x.kind = "inf"
    THEN <<"float", (IF negative THEN <<"-">> ELSE <<>>) \o <<"inf">>>>
    ELSE IF x.e >= 0 THEN <<"float", Number(negative, Scale(x.m, 2, x.e), 0)>>
    ELSE <<"float", Number(negative, Scale(x.m, 5, 0 - x.e), x.e)>>

\* SafeConstructor.construct_yaml_float
construct_yaml_float(value) ==
    LET capital == <<"E", "I", "N", "F", "A">>
        small == <<"e", "i", "n", "f", "a">>
        bare == SelectSeq(value, LAMBDA c : c # "_")
        \* value.lower(), of the letters that the float of the resolver has
        lowered == [i \in 1..Len(bare) |->
                       IF \E n \in 1..5 : capital[n] = bare[i]
                       THEN small[CHOOSE n \in 1..5 : capital[n] = bare[i]]
                       ELSE bare[i]]
        negative == lowered[1] = "-"
        text == IF lowered[1] \in {"+", "-"} THEN Tail(lowered) ELSE lowered
        parts == split(text, ":")
        \* the double nearest to m * 2^e
        RoundBinary(m, e) ==
            IF e >= 0 THEN Round(Scale(m, 2, e), <<1>>)
            ELSE Round(m, Scale(<<1>>, 2, 0 - e))
        \* value += digit*base; base *= 60 for the part k.  base is an int,
        \* and float(base) raises OverflowError where it would be inf
        Step(k, state) ==
            LET factor == Round(state.base, <<1>>)
                x == state.value
                digit == float(parts[k])
                product == IF digit.kind = "inf" THEN digit
                           ELSE RoundBinary(Mul(digit.m, factor.m), digit.e + factor.e)
                least == IF x.e < product.e THEN x.e ELSE product.e
                sum == IF x.kind = "inf" \/ product.kind = "inf" THEN Double("inf", <<>>, 0)
                       ELSE RoundBinary(Add(Scale(x.m, 2, x.e - least),
                                            Scale(product.m, 2, product.e - least)), least)
            IN IF factor.kind = "inf" THEN [state EXCEPT !.raised = TRUE]
               ELSE [base |-> MulAdd(state.base, 60, 0), value |-> sum, raised |-> FALSE]
        \* for digit in digits, for the parts lo..hi from the last to the
        \* first, until one raises
        RECURSIVE Sum(_, _, _)
        Sum(lo, hi, state) ==
            IF lo = hi THEN Step(lo, state)
            ELSE LET mid == (lo + hi) \div 2
                     done == Sum(mid + 1, hi, state)
                 IN IF done.raised THEN done ELSE Sum(lo, mid, done)
        summed == Sum(1, Len(parts), [base |-> <<1>>, value |-> Double("finite", <<>>, 0),
                                      raised |-> FALSE])
    IN IF text = <<".", "i", "n", "f">> THEN FloatNumber(negative, Double("inf", <<>>, 0))
       ELSE IF text = <<".", "n", "a", "n">> THEN <<"float", <<"nan">>>>
       ELSE IF Contains(text, ":")
       THEN IF summed.raised THEN Raise ELSE FloatNumber(negative, summed.value)
       ELSE FloatNumber(negative, float(text))

\* SafeConstructor.construct_yaml_timestamp: datetime.date for a date,
\* datetime.datetime when there is a time, ValueError for a date or a time
\* that does not exist
construct_yaml_timestamp(value) ==
    LET Blank == {" ", "\t"}
        \* the end of the stretch of characters of S that starts at i
        End(S, i) ==
            IF \E j \in i..Len(value) : value[j] \notin S
            THEN (CHOOSE j \in i..Len(value) :
                     value[j] \notin S /\ \A k \in i..(j - 1) : value[k] \in S) - 1
            ELSE Len(value)
        RECURSIVE Small(_)
        Small(d) ==
            IF d = <<>> THEN 0
            ELSE 10 * Small(SubSeq(d, 1, Len(d) - 1)) + DigitValue(d[Len(d)])
        Field(from, to) == Small(SubSeq(value, from, to))
        month_end == End(Digits, 6)
        day_end == End(Digits, month_end + 2)
        year == Field(1, 4)
        month == Field(6, month_end)
        day == Field(month_end + 2, day_end)
        hour_start == IF value[day_end + 1] \in Blank THEN End(Blank, day_end + 1) + 1
                      ELSE day_end + 2
        hour_end == End(Digits, hour_start)
        hour == Field(hour_start, hour_end)
        minute == Field(hour_end + 2, hour_end + 3)
        second == Field(hour_end + 5, hour_end + 6)
        has_fraction == hour_end + 7 <= Len(value) /\ value[hour_end + 7] = "."
        fraction_end == IF has_fraction THEN End(Digits, hour_end + 8) ELSE hour_end + 6
        fraction == SubSeq(value, hour_end + 8, fraction_end)
        microsecond == Small(SubSeq(fraction \o <<"0", "0", "0", "0", "0", "0">>, 1, 6))
        tz == End(Blank, fraction_end + 1) + 1
        has_tz == tz <= Len(value)
        tz_hour_end == End(Digits, tz + 1)
        tz_hour == Field(tz + 1, tz_hour_end)
        tz_minute == IF tz_hour_end < Len(value) THEN Field(tz_hour_end + 2, Len(value)) ELSE 0
        delta == IF value[tz] = "Z" THEN 0
                 ELSE IF value[tz] = "-" THEN 0 - (60 * tz_hour + tz_minute)
                 ELSE 60 * tz_hour + tz_minute
        leap == year % 4 = 0 /\ (year % 100 # 0 \/ year % 400 = 0)
        days_in_month == <<31, IF leap THEN 29 ELSE 28, 31, 30, 31, 30, 31, 31, 30, 31, 30, 31>>
        days_before_month == <<0, 31, 59, 90, 120, 151, 181, 212, 243, 273, 304, 334>>
        date_exists == /\ year >= 1
                       /\ month \in 1..12
                       /\ day >= 1 /\ day <= days_in_month[month]
        time_exists == hour < 24 /\ minute < 60 /\ second < 60
        ordinal == 365 * (year - 1) + (year - 1) \div 4 - (year - 1) \div 100
                   + (year - 1) \div 400 + days_before_month[month]
                   + (IF leap /\ month > 2 THEN 1 ELSE 0) + day
        seconds == 3600 * hour + 60 * minute + second - 60 * delta + 172800
        date == IntChars(year) \o <<"-">> \o IntChars(month) \o <<"-">> \o IntChars(day)
    IN IF ~date_exists THEN Raise
       ELSE IF day_end = Len(value) THEN <<"date", date>>
       ELSE IF ~time_exists THEN Raise
       ELSE IF ~has_tz
       THEN <<"datetime", date \o <<"T">> \o IntChars(hour) \o <<":">> \o IntChars(minute)
                          \o <<":">> \o IntChars(second) \o <<".">> \o IntChars(microsecond)>>
       ELSE IF delta <= -1440 \/ delta >= 1440 THEN Raise
       ELSE <<"datetime", <<"utc">> \o IntChars(ordinal + seconds \div 86400 - 2)
                          \o <<"T">> \o IntChars(seconds % 86400)
                          \o <<".">> \o IntChars(microsecond)>>

\* SafeConstructor.construct_yaml_bool: bool_values[value.lower()], KeyError
\* for a value that is not a key; the keys have ASCII letters only
construct_yaml_bool(value) ==
    LET capital == <<"A", "E", "F", "L", "N", "O", "R", "S", "T", "U", "Y">>
        small == <<"a", "e", "f", "l", "n", "o", "r", "s", "t", "u", "y">>
        lowered == [i \in 1..Len(value) |->
                       IF \E n \in 1..11 : capital[n] = value[i]
                       THEN small[CHOOSE n \in 1..11 : capital[n] = value[i]]
                       ELSE value[i]]
    IN IF lowered \in {<<"y", "e", "s">>, <<"t", "r", "u", "e">>, <<"o", "n">>}
       THEN <<"bool", Number(FALSE, <<1>>, 0)>>
       ELSE IF lowered \in {<<"n", "o">>, <<"f", "a", "l", "s", "e">>, <<"o", "f", "f">>}
       THEN <<"bool", Number(FALSE, <<0>>, 0)>>
       ELSE Raise

\* BaseConstructor.construct_object for a scalar node: the constructor
\* registered for the tag, construct_undefined when there is none
construct_scalar(tag, value) ==
    CASE tag = "str" -> Str(value)
      [] tag = "null" -> <<"null", <<>>>>
      [] tag = "bool" -> construct_yaml_bool(value)
      [] tag = "int" -> construct_yaml_int(value)
      [] tag = "float" -> construct_yaml_float(value)
      [] tag = "timestamp" -> construct_yaml_timestamp(value)
      [] OTHER -> Raise

\* what tells a key of a dict from another: hash and ==.  The characters
\* of a str; bool, int and float are equal when their values are (True is
\* 1); a key of another type is apart from every str key.
KeyOf(v) ==
    IF v[1] = "str" THEN v[2]
    ELSE IF v[1] \in {"bool", "int", "float"} THEN <<"!number">> \o v[2]
    ELSE <<"!" \o v[1]>> \o v[2]

RECURSIVE StripBreaks(_)
StripBreaks(s) ==
    IF Len(s) > 0 /\ s[Len(s)] \in Breaks THEN StripBreaks(SubSeq(s, 1, Len(s) - 1))
    ELSE s

\* Scanner.scan_block_scalar: the trailing line breaks are stripped (-),
\* kept (+), or clipped to the one that ends the last line, if there is a
\* line
Chomp(text, style) ==
    LET indicator == IF Len(style) > 0 THEN SubSeq(style, Len(style), Len(style)) ELSE ""
        body == StripBreaks(text)
    IN IF indicator = "-" THEN body
       ELSE IF indicator = "+" THEN text
       ELSE IF Len(body) = 0 THEN <<>>
       ELSE IF Len(body) = Len(text) THEN text
       ELSE SubSeq(text, 1, Len(body) + 1)

\* Composer.compose_scalar_node: a plain scalar takes the tag of the
\* implicit resolver, every other scalar is a str
compose_scalar_node(ev) ==
    IF ev[3] = "plain" THEN <<"scalar", ImplicitTag(ev[2]), ev[2]>>
    ELSE IF Len(ev[3]) > 0 /\ SubSeq(ev[3], 1, 1) \in {"|", ">"}
    THEN <<"scalar", "str", Chomp(ev[2], ev[3])>>
    ELSE <<"scalar", "str", ev[2]>>

\* Composer.compose_node on the events from position i on: the node, and
\* the position after its last event
RECURSIVE compose_node(_, _)
RECURSIVE compose_sequence_node(_, _, _)
RECURSIVE compose_mapping_node(_, _, _)

compose_sequence_node(events, i, acc) ==
    IF events[i][1] = "seq_end" THEN [node |-> <<"sequence", acc>>, n |-> i + 1]
    ELSE LET item == compose_node(events, i)
         IN compose_sequence_node(events, item.n, Append(acc, item.node))

compose_mapping_node(events, i, acc) ==
    IF events[i][1] = "map_end" THEN [node |-> <<"mapping", acc>>, n |-> i + 1]
    ELSE LET item_key == compose_node(events, i)
             item_value == compose_node(events, item_key.n)
         IN compose_mapping_node(events, item_value.n,
                                 Append(acc, <<item_key.node, item_value.node>>))

compose_node(events, i) ==
    CASE events[i][1] = "scalar" -> [node |-> compose_scalar_node(events[i]), n |-> i + 1]
      [] events[i][1] = "seq_start" -> compose_sequence_node(events, i + 1, <<>>)
      [] events[i][1] = "map_start" -> compose_mapping_node(events, i + 1, <<>>)

\* SafeConstructor.flatten_mapping: the pairs of a mapping node once the
\* mappings under its merge keys (<<) are put in front of the others, and a
\* key = is made a str; ok is FALSE where ConstructorError is raised
RECURSIVE flatten_mapping(_, _, _, _)
RECURSIVE merge_of(_)
RECURSIVE submerge(_, _, _)

\* the pairs a merge key brings in: those of a mapping, or those of the
\* mappings of a sequence, the last mapping first
merge_of(value_node) ==
    IF value_node[1] = "mapping" THEN flatten_mapping(value_node[2], 1, <<>>, <<>>)
    ELSE IF value_node[1] = "sequence" THEN submerge(value_node[2], 1, <<>>)
    ELSE [ok |-> FALSE, pairs |-> <<>>]

submerge(subnodes, k, acc) ==
    IF k > Len(subnodes) THEN [ok |-> TRUE, pairs |-> acc]
    ELSE IF subnodes[k][1] # "mapping" THEN [ok |-> FALSE, pairs |-> <<>>]
    ELSE LET m == flatten_mapping(subnodes[k][2], 1, <<>>, <<>>)
         IN IF m.ok THEN submerge(subnodes, k + 1, m.pairs \o acc)
            ELSE [ok |-> FALSE, pairs |-> <<>>]

flatten_mapping(pairs, index, merge, kept) ==
    IF index > Len(pairs) THEN [ok |-> TRUE, pairs |-> merge \o kept]
    ELSE IF pairs[index][1][1] = "scalar" /\ pairs[index][1][2] = "merge"
    THEN LET m == merge_of(pairs[index][2])
         IN IF m.ok THEN flatten_mapping(pairs, index + 1, merge \o m.pairs, kept)
            ELSE [ok |-> FALSE, pairs |-> <<>>]
    ELSE IF pairs[index][1][1] = "scalar" /\ pairs[index][1][2] = "value"
    THEN flatten_mapping(pairs, index + 1, merge,
                         Append(kept, <<<<"scalar", "str", pairs[index][1][3]>>,
                                        pairs[index][2]>>))
    ELSE flatten_mapping(pairs, index + 1, merge, Append(kept, pairs[index]))

\* BaseConstructor.construct_object with the constructors of SafeConstructor
RECURSIVE construct_object(_)
RECURSIVE construct_mapping(_, _, _)
RECURSIVE construct_sequence(_, _, _)

\* BaseConstructor.construct_mapping on the flattened pairs: a key that is
\* a list or a dict cannot be hashed, and a key that is already there keeps
\* its place and takes the new value
construct_mapping(pairs, k, mapping) ==
    IF k > Len(pairs) THEN mapping
    ELSE LET key == construct_object(pairs[k][1])
             value == construct_object(pairs[k][2])
         IN IF key[1] \in {"raise", "seq", "map"} \/ value[1] = "raise" THEN Raise
            ELSE construct_mapping(pairs, k + 1, DictSet(mapping, KeyOf(key), value))

\* BaseConstructor.construct_sequence
construct_sequence(nodes_, k, items) ==
    IF k > Len(nodes_) THEN List(items)
    ELSE LET item == construct_object(nodes_[k])
         IN IF item[1] = "raise" THEN Raise
            ELSE construct_sequence(nodes_, k + 1, Append(items, item))

construct_object(node) ==
    CASE node[1] = "scalar" -> construct_scalar(node[2], node[3])
      [] node[1] = "sequence" -> construct_sequence(node[2], 1, <<>>)
      [] node[1] = "mapping" ->
            LET flat == flatten_mapping(node[2], 1, <<>>, <<>>)
            IN IF ~flat.ok THEN Raise
               ELSE construct_mapping(flat.pairs, 1, Map(<<>>))

\* yaml.safe_load of the file's contents, from the events the parser reads
\* in it on: BaseConstructor.get_single_data composes the node of the
\* document and constructs it; an empty file loads as None
Load(events) ==
    IF Len(events) = 0 THEN <<"null", <<>>>>
    ELSE construct_object(compose_node(events, 1).node)

(***************************************************************************)
(* main() (lines 141-154), one action per statement.                       *)
(***************************************************************************)
NoFile == [exists |-> FALSE, data |-> <<>>]

\* a file that is already at the output path: some earlier YAML document
PriorFile == [exists |-> TRUE, data |-> <<<<"scalar", <<"o", "l", "d">>, "plain">>>>]

Init ==
    /\ argv \in SeqsUpTo(Tokens, MaxArgs)
    /\ pc = "start"
    /\ args = NoValue
    /\ exit_status = -1
    /\ disk \in {NoFile, PriorFile}
    /\ disk0 = disk
    /\ workflow = NoValue
    /\ nodes = NoValue
    /\ stream = <<>>
    /\ calls = {}
    /\ slug_in = <<>>
    /\ slug_cur = <<>>
    /\ slug_name = NoValue

\* line 142: parser.parse_args() returns the Namespace or ends the process
ParseArgs ==
    /\ pc = "start"
    /\ LET r == parse_args(argv)
       IN IF r.ok
          THEN /\ args' = r.ns
               /\ pc' = "parsed"
               /\ UNCHANGED exit_status
          ELSE /\ pc' = "parser_exit"
               /\ exit_status' = r.status
               /\ UNCHANGED args
    /\ calls' = calls \cup {"parse_args"}
    /\ UNCHANGED <<argv, disk, disk0, workflow, nodes, stream,
                   slug_in, slug_cur, slug_name>>

\* the guard without the test of args.force
GuardIgnoringForce(exists, force) == exists

\* line 143: os.path.exists(args.outfile) and not args.force
Guard(exists, force) == exists /\ ~force

\* lines 143-144.  os.path.exists raises TypeError for an outfile that is
\* not a path, which the parser yields when '--' is the last argument after
\* an earlier '--'; the exception is not caught.
CheckOutfile ==
    /\ pc = "parsed"
    /\ calls' = calls \cup {"exists"}
    /\ IF ~IsStr(args.outfile)
       THEN pc' = "uncaught" /\ exit_status' = 1
       ELSE IF Guard(disk.exists, args.force)
       THEN pc' = "guard_exit" /\ exit_status' = 1
       ELSE pc' = "checked" /\ UNCHANGED exit_status
    /\ UNCHANGED <<argv, args, disk, disk0, workflow, nodes, stream,
                   slug_in, slug_cur, slug_name>>

\* line 146
BuildWorkflow ==
    /\ pc = "checked"
    /\ workflow' = build_workflow(args)
    /\ pc' = "built"
    /\ calls' = calls \cup {"build_workflow"}
    /\ UNCHANGED <<argv, args, exit_status, disk, disk0, nodes, stream,
                   slug_in, slug_cur, slug_name>>

\* line 147: open(args.outfile, 'w') creates the file or truncates it
OpenOutfile ==
    /\ pc = "built"
    /\ disk' = [exists |-> TRUE, data |-> <<>>]
    /\ pc' = "opened"
    /\ calls' = calls \cup {"open"}
    /\ UNCHANGED <<argv, args, exit_status, disk0, workflow, nodes, stream,
                   slug_in, slug_cur, slug_name>>

\* line 147: open() raises OSError (no such directory, permission denied);
\* the exception is not caught and the process ends with status 1
OpenFails ==
    /\ pc = "built"
    /\ pc' = "uncaught"
    /\ exit_status' = 1
    /\ calls' = calls \cup {"open"}
    /\ UNCHANGED <<argv, args, disk, disk0, workflow, nodes, stream,
                   slug_in, slug_cur, slug_name>>

\* lines 148-154, first half of yaml.dump: Dumper.represent builds the
\* whole representation graph before anything is emitted.  An exception
\* leaves the with block of line 147, which closes the file
Represent ==
    /\ pc = "opened"
    /\ nodes' = represent_data(workflow, <<>>)
    /\ IF Raises(nodes')
       THEN /\ pc' = "uncaught" /\ exit_status' = 1
            /\ calls' = calls \cup {"represent", "close"}
       ELSE /\ pc' = "represented" /\ UNCHANGED exit_status
            /\ calls' = calls \cup {"represent"}
    /\ UNCHANGED <<argv, args, disk, disk0, workflow, stream,
                   slug_in, slug_cur, slug_name>>

\* How many events of a document can stand whole in the file when a write
\* fails.  The file then holds the first bytes of the text, from none of
\* them to all but the last one: with every scalar whole, what is missing
\* is the line break at the end.
PartialLengths(events) == 0..Len(events)

\* lines 148-154, second half of yaml.dump: the graph is serialized, the
\* emitter writes into the file object, and at the end of the document it
\* flushes the file object (Emitter.flush_stream)
Emit ==
    /\ pc = "represented"
    /\ stream' = Serialize(nodes, FALSE)
    /\ disk' = [exists |-> TRUE, data |-> stream']
    /\ pc' = "emitted"
    /\ calls' = calls \cup {"emit"}
    /\ UNCHANGED <<argv, args, exit_status, disk0, workflow, nodes,
                   slug_in, slug_cur, slug_name>>

\* a write or the flush raises OSError (disk full, file size limit, I/O
\* error): the file holds the bytes that were written before, which can end
\* anywhere in the text.  The exception leaves the with block of line 147,
\* which closes the file, and is not caught.  The file is then the events
\* that stand whole in it, followed by <<"cut">> when the bytes end inside
\* the text of the next one.
WriteFails ==
    /\ pc = "represented"
    /\ stream' = Serialize(nodes, FALSE)
    /\ \E n \in PartialLengths(stream'), cut \in BOOLEAN :
          /\ cut => n < Len(stream')
          /\ disk' = [exists |-> TRUE,
                      data |-> SubSeq(stream', 1, n)
                               \o (IF cut THEN << <<"cut">> >> ELSE <<>>)]
    /\ pc' = "uncaught"
    /\ exit_status' = 1
    /\ calls' = calls \cup {"emit", "close"}
    /\ UNCHANGED <<argv, args, disk0, workflow, nodes,
                   slug_in, slug_cur, slug_name>>

\* the end of the with block and of main(): the file is closed
CloseOutfile ==
    /\ pc = "emitted"
    /\ pc' = "done"
    /\ exit_status' = 0
    /\ calls' = calls \cup {"close"}
    /\ UNCHANGED <<argv, args, disk, disk0, workflow, nodes, stream,
                   slug_in, slug_cur, slug_name>>

Next ==
    \/ ParseArgs
    \/ CheckOutfile
    \/ BuildWorkflow
    \/ OpenOutfile
    \/ OpenFails
    \/ Represent
    \/ Emit
    \/ WriteFails
    \/ CloseOutfile

Spec == Init /\ [][Next]_vars

(***************************************************************************)
(* Properties.                                                             *)
(***************************************************************************)
Range(f) == {f[i] : i \in DOMAIN f}

\* whether x is made of elements of a, in the order they have in a
RECURSIVE IsSubsequence(_, _)
IsSubsequence(x, a) ==
    IF Len(x) = 0 THEN TRUE
    ELSE IF Len(a) = 0 THEN FALSE
    ELSE IF x[1] = a[1] THEN IsSubsequence(Tail(x), Tail(a))
    ELSE IsSubsequence(x, Tail(a))

\* the document main() renders when it gets that far
Rendered == Serialize(represent_data(build_workflow(args), <<>>), FALSE)

\* C1: the overwrite guard.  When the output path exists and --force is not
\* given the process exits with status 1 before build_workflow is called
\* and the file is as it was; for every other output path the guard lets
\* the run proceed to build_workflow, and a run that completes leaves the
\* newly rendered document in the file.
OverwriteGuard ==
    /\ pc = "guard_exit" =>
          /\ exit_status = 1
          /\ disk0.exists /\ ~args.force
          /\ "build_workflow" \notin calls
          /\ workflow = NoValue
          /\ disk = disk0
    /\ ("exists" \in calls /\ IsStr(args.outfile)) =>
          IF disk0.exists /\ ~args.force
          THEN pc = "guard_exit"
          ELSE pc = "checked" \/ "build_workflow" \in calls
    /\ pc = "done" =>
          /\ exit_status = 0
          /\ ~disk0.exists \/ args.force
          /\ disk = [exists |-> TRUE, data |-> Rendered]

\* C1 witness: the guard has refused to overwrite an existing file
OverwriteRefused ==
    /\ pc = "guard_exit"
    /\ disk = PriorFile
    /\ Len(args.slugs) >= 1

IsGradingStepFor(step, slug) ==
    /\ HasKey(step, K.uses) /\ Get(step, K.uses) = Str(L.grader)
    /\ HasKey(step, K.id) /\ Get(step, K.id) = Str(SlugName(slug))
    /\ HasKey(step, K.name) /\ Get(step, K.name) = Str(SlugName(slug))
    /\ HasKey(step, K.with)

IsExportStepFor(step, slug) ==
    /\ ~HasKey(step, K.uses)
    /\ HasKey(step, K.run)
    /\ Get(step, K.name) = Str(L.assign \o SlugName(slug) \o L.RESULTS)

IsReporterStep(step) ==
    HasKey(step, K.uses) /\ Get(step, K.uses) = Str(L.reporter)

\* C2: the step list has 2 + 2*len(S) + 1 entries: checkout, install, then
\* for each slug in input order its grading step followed by its export
\* step, and one reporter step, last.
StepSequenceShape ==
    workflow # NoValue =>
        LET S == args.slugs
            steps == StepsOf(workflow)
        IN /\ Len(S) >= 1
           /\ Len(steps) = 2 + 2 * Len(S) + 1
           /\ steps[1] = Map(<< <<K.uses, Str(L.checkout)>> >>)
           /\ Get(steps[2], K.name) = Str(L.install_name)
           /\ \A i \in 1..Len(S) :
                 /\ IsGradingStepFor(steps[2 * i + 1], S[i])
                 /\ IsExportStepFor(steps[2 * i + 2], S[i])
           /\ IsReporterStep(steps[Len(steps)])
           /\ Cardinality({j \in 1..Len(steps) : IsReporterStep(steps[j])}) = 1

\* C2 witness: a document has been built for several slugs
BuiltForSeveralSlugs ==
    /\ pc = "built"
    /\ Len(args.slugs) >= 2
    /\ args.slugs[1] # args.slugs[2]

\* the value node a mapping node holds under key
NodeGet(node, key) ==
    node[2][CHOOSE i \in 1..Len(node[2]) : node[2][i][1][2] = key][2]

\* the sequence node of workflow['jobs']['run-autograding-tests']['steps']
StepsNode(graph) == NodeGet(NodeGet(NodeGet(graph, K.jobs), K.job), K.steps)

\* the node a BlankLine is represented by: an empty scalar in literal style
IsBlankEntry(node) == node = <<"scalar", <<>>, "|">>

RECURSIVE BlankEntries(_)
RECURSIVE SumBlankEntries(_, _)
SumBlankEntries(items, i) ==
    IF i > Len(items) THEN 0
    ELSE BlankEntries(items[i]) + SumBlankEntries(items, i + 1)

\* the number of blank entries anywhere in a representation graph
BlankEntries(node) ==
    CASE node[1] = "scalar" -> IF IsBlankEntry(node) THEN 1 ELSE 0
      [] node[1] = "sequence" -> SumBlankEntries(node[2], 1)
      [] node[1] = "mapping" ->
            SumBlankEntries([i \in 1..Len(node[2]) |-> node[2][i][2]], 1)
      [] OTHER -> 0

\* C3: rendered through BlankLineStepsDumper, the n steps are emitted with
\* n-1 empty literal-block entries, one between every two adjacent steps,
\* none before the first or after the last, and none anywhere else.
BlankLinesBetweenSteps ==
    (nodes # NoValue /\ ~Raises(nodes)) =>
        LET n == Len(StepsOf(workflow))
            items == StepsNode(nodes)[2]
        IN /\ Len(items) = 2 * n - 1
           /\ \A j \in 1..Len(items) : IsBlankEntry(items[j]) <=> (j % 2 = 0)
           /\ BlankEntries(nodes) = n - 1

\* C4: the reporter step's runners value is the derived names joined by
\* single spaces, in input order with duplicates kept; its env mapping has
\* one entry per produced name, <name>_RESULTS mapped to the expression
\* that dereferences env.<name>_RESULTS, a repeated name giving one entry.
ReporterContract ==
    workflow # NoValue =>
        LET names == SlugNames(args.slugs)
            steps == StepsOf(workflow)
            reporter == steps[Len(steps)]
            env == Get(reporter, K.env)[2]
            with == Get(reporter, K.with)[2]
        IN /\ Len(with) = 1
           /\ with[1][1] = K.runners
           /\ split(with[1][2][2], " ") = names
           /\ {env[j][1] : j \in 1..Len(env)} = {n \o L.RESULTS : n \in Range(names)}
           /\ Len(env) = Cardinality(Range(names))
           /\ \A j \in 1..Len(env) : \E n \in Range(names) :
                 env[j] = <<n \o L.RESULTS, Str(L.env_open \o n \o L.env_close)>>

\* C4 witness: a document built from slugs two of which give the same name
BuiltWithRepeatedName ==
    /\ pc = "built"
    /\ \E i, j \in 1..Len(args.slugs) :
          i < j /\ SlugName(args.slugs[i]) = SlugName(args.slugs[j])

Ex_foo_bar_sep ==
    <<"f","o","o","/","b","a","r","/">>

Ex_foo_bar ==
    <<"f","o","o","/","b","a","r">>

Ex_bar_py ==
    <<"b","a","r",".","p","y">>

Ex_bar ==
    <<"b","a","r">>

W_autograder ==
    <<"-","-","a","u","t","o","g","r","a","d","e","r">>

W_w0 ==
    <<"-","w","0">>

L_autograder_dir ==
    <<".","/","a","u","t","o","g","r","a","d","e","r","/">>

L_json ==
    <<".","j","s","o","n">>

WordAfter(words, w) == words[(CHOOSE i \in 1..Len(words) : words[i] = w) + 1]

\* the path the grading command passes after --autograder
GradingDestination(step) ==
    WordAfter(split(Get(Get(step, K.with), K.command)[2], " "), W_autograder)

\* the path the export command hands to base64 -w0, without the closing )"
ExportSource(step) ==
    LET w == WordAfter(split(Get(step, K.run)[2], " "), W_w0)
    IN SubSeq(w, 1, Len(w) - 2)

\* the variable the export command assigns: echo "<variable>=$(...
ExportVariable(step) ==
    LET w == split(Get(step, K.run)[2], " ")[2]
        eq == CHOOSE i \in 1..Len(w) : w[i] = "=" /\ \A j \in 1..(i - 1) : w[j] # "="
    IN SubSeq(w, 2, eq - 1)

\* C6: the export step of each slug base64-encodes the very file its
\* grading step writes, ./autograder/<name>.json, and exports it as
\* <name>_RESULTS.
ExportReadsGradingResult ==
    workflow # NoValue =>
        LET steps == StepsOf(workflow)
        IN \A i \in 1..Len(args.slugs) :
              LET name == SlugName(args.slugs[i])
              IN /\ GradingDestination(steps[2 * i + 1]) = L_autograder_dir \o name \o L_json
                 /\ ExportSource(steps[2 * i + 2]) = GradingDestination(steps[2 * i + 1])
                 /\ ExportVariable(steps[2 * i + 2]) = name \o L.RESULTS

\* C7: loading the written file gives back the in-memory document, with
\* 2 + 2*len(S) + 1 steps and no element for a blank-line marker; rendering
\* leaves the in-memory step list as build_workflow returned it, without
\* any BlankLine in it.  The file is what the parser reads in it, under the
\* condition stated with the emitter; the hook of lines 33-61 puts the
\* markers into a list of its own (new_data) and only reads the steps, so
\* no action after line 146 assigns workflow.
RoundTrip ==
    /\ pc = "done" =>
          LET loaded == Load(disk.data)
          IN /\ loaded = workflow
             /\ Len(StepsOf(loaded)) = 2 + 2 * Len(args.slugs) + 1
    /\ workflow # NoValue =>
          /\ workflow = build_workflow(args)
          /\ \A j \in 1..Len(StepsOf(workflow)) : StepsOf(workflow)[j] # BlankLine

\* C7 witness: a document for several slugs, one of them with a name that
\* needs quoting, has been written
WrittenForSeveralSlugs ==
    /\ pc = "done"
    /\ Len(args.slugs) >= 2
    /\ \E i \in 1..Len(args.slugs) : ImplicitTag(SlugName(args.slugs[i])) # "str"

\* C8: for every argument list the parser either ends the process, and
\* then nothing is checked, built or written, or yields a Request whose
\* slugs are non-empty and in input order and whose output path is taken
\* from the arguments.
ParserYieldsRequestOrFails ==
    pc # "start" =>
        IF pc = "parser_exit"
        THEN /\ exit_status \in {0, 2}
             /\ calls = {"parse_args"} /\ disk = disk0 /\ workflow = NoValue
        ELSE /\ Len(args.slugs) >= 1
             /\ IsSubsequence(args.slugs, argv)
             /\ IsStr(args.outfile)
             /\ args.outfile[2] \in Range(argv)

\* C9: the file is opened only after the existence check has passed and the
\* document stands in memory, and a run that fails, at whatever step,
\* leaves in the file its prior contents or the complete rendered document.
NoPartialWrite ==
    /\ "open" \in calls => ("exists" \in calls /\ workflow # NoValue)
    /\ pc \in {"guard_exit", "uncaught"} =>
          \/ disk.data = disk0.data
          \/ disk.data = Rendered

\* C10: for pairwise distinct slugs every grading step has a non-empty id
\* and the ids are pairwise distinct.
GradingIdsDistinct ==
    (workflow # NoValue
       /\ \A i, j \in 1..Len(args.slugs) : i # j => args.slugs[i] # args.slugs[j]) =>
        LET steps == StepsOf(workflow)
            id(i) == Get(steps[2 * i + 1], K.id)
        IN /\ \A i \in 1..Len(args.slugs) : IsStr(id(i)) /\ Len(id(i)[2]) > 0
           /\ \A i, j \in 1..Len(args.slugs) : i # j => id(i) # id(j)

====
